---- MODULE Spec2Model ----
(***************************************************************************)
(* A model of drift's provider-abstraction layer: the retry wrapper        *)
(* (RetryMixin.with_retry, driven by tenacity's retry loop) and the two    *)
(* provider clients (GitHubClient, GitLabClient) with their TTL caches.    *)
(*                                                                         *)
(* Time is counted in whole seconds.  Exceptions are records               *)
(* [kind, reset_time]; reset_time is <<>> for None and <<r>> for the       *)
(* integer r, so that the truthiness test of the source can be modelled.   *)
(***************************************************************************)
EXTENDS Integers, Sequences, FiniteSets, TLC

\* ------------------------------------------------------------------------
\* Bounds of the model
\* ------------------------------------------------------------------------
MaxFails == 3         \* scripted failures before the final outcome: 0..MaxFails
MaxWaitArg == 3       \* max_wait is drawn from (MaxWaitArg - 1)..MaxWaitArg
MaxBackoff == 2       \* backoff_factor is drawn from 1..MaxBackoff

\* ------------------------------------------------------------------------
\* Program constants
\* ------------------------------------------------------------------------
MAX_ALLOWED_RETRIES == 10

Min(a, b) == IF a <= b THEN a ELSE b
Max(a, b) == IF a >= b THEN a ELSE b

RECURSIVE Pow2(_)
Pow2(n) == IF n <= 0 THEN 1 ELSE 2 * Pow2(n - 1)

\* ------------------------------------------------------------------------
\* Exceptions (drift/exceptions.py and the builtins retry.py names)
\* ------------------------------------------------------------------------
None == <<>>
Some(x) == <<x>>

\* Direct base class of every exception class the model raises or tests for.
ExceptionBase ==
    [ DriftException       |-> "Exception",
      AuthenticationError  |-> "DriftException",
      RateLimitError       |-> "DriftException",
      ResourceNotFoundError |-> "DriftException",
      APIError             |-> "DriftException",
      NetworkError         |-> "DriftException",
      TimeoutError         |-> "DriftException",
      ValueError           |-> "Exception",
      AttributeError       |-> "Exception",
      OSError              |-> "Exception",
      ConnectionError      |-> "OSError",
      ConnectionResetError |-> "ConnectionError",
      Exception            |-> "Exception" ]

RECURSIVE IsSubclass(_, _)
IsSubclass(kind, cls) ==
    IF kind = cls THEN TRUE
    ELSE IF kind = "Exception" THEN FALSE
    ELSE IsSubclass(ExceptionBase[kind], cls)

\* isinstance(exception, classes) for a tuple of classes
IsInstance(exc, classes) == \E c \in classes : IsSubclass(exc.kind, c)

Exc(kind) == [failed |-> TRUE, kind |-> kind, reset_time |-> None]
RateLimitError(reset) == [failed |-> TRUE, kind |-> "RateLimitError", reset_time |-> reset]
Returned == [failed |-> FALSE, kind |-> "success", reset_time |-> None]
NoOutcome == [failed |-> FALSE, kind |-> "none", reset_time |-> None]

\* ------------------------------------------------------------------------
\* RetryMixin.with_retry: arguments and the wrapped function
\* ------------------------------------------------------------------------
\* The default of the retry_on parameter.
DefaultRetryOn == {"NetworkError", "TimeoutError", "ConnectionError"}

RetryOnArgs == {DefaultRetryOn, DefaultRetryOn \cup {"RateLimitError"}}

MaxRetriesArgs == {-1, 0, 1, 2, 3, MAX_ALLOWED_RETRIES, MAX_ALLOWED_RETRIES + 1}

\* reset_time hints: None, zero, below every max_wait, above every max_wait
ResetTimes == {None, Some(0), Some(MaxWaitArg - 1), Some(MaxWaitArg + 2)}

RaisedErrors ==
    {Exc("NetworkError"), Exc("ConnectionResetError"), Exc("ValueError")}
        \cup {RateLimitError(r) : r \in ResetTimes}

\* A wrapped function is a script: its first `fails` calls raise `err`, every
\* later call produces `last` (the success value or another exception).
FailCounts == (0..MaxFails) \cup {MAX_ALLOWED_RETRIES}

Funcs ==
    [fails : FailCounts, err : RaisedErrors,
     last : {Returned, Exc("ValueError"), Exc("NetworkError")}]

\* The outcome of the n-th call of the wrapped function.
FuncOutcome(f, n) == IF n <= f.fails THEN f.err ELSE f.last

VARIABLES
    max_retries,      \* with_retry arguments
    backoff_factor,
    max_wait,
    jitter,
    retry_on,
    func,             \* the wrapped function
    pc,               \* "wrap", "attempt", "check", "done" ("idle": not in use)
    attempt_number,   \* retry_state.attempt_number
    outcome,          \* retry_state.outcome
    calls,            \* how often func has been invoked
    sleeps,           \* how often the wrapper has slept
    wait_time,        \* the last wait, None before the first
    result            \* what the wrapped call returned or raised

retryVars == <<max_retries, backoff_factor, max_wait, jitter, retry_on, func, pc,
               attempt_number, outcome, calls, sleeps, wait_time, result>>

\* The client instance under test, its TTL cache and the provider behind it.
VARIABLES
    client,           \* the class of the instance: "GitHubClient" or "GitLabClient"
    cache,            \* self._cache: entries in insertion order
    now,              \* time.monotonic(), in seconds
    remote,           \* the provider: per PR number, revision and comment count
    provider_up,      \* whether the provider answers requests
    token_valid,      \* whether the provider accepts the client's token
    repo,             \* self._repo: None until the repository is loaded
    call,             \* the last contract operation called, with its arguments
    ret               \* what it returned or raised, and its provider requests

clientVars == <<client, cache, now, remote, provider_up, token_valid, repo, call, ret>>

\* A run of a pagination helper: the instance it is called on, the item source
\* and what has been yielded so far.
VARIABLES
    page_self,        \* the class of the instance the helper is called on
    page_helper,      \* "collect_paginated", "paginate_github" or "paginate_gitlab"
    page_source,      \* the number of items the source holds: items 1..page_source
    max_items,        \* the max_items argument: None or Some(M)
    page_out,         \* the items yielded (collected) so far, in order
    page_pc           \* "call", "run", "done", "raised" ("idle": not in use)

pageVars == <<page_self, page_helper, page_source, max_items, page_out, page_pc>>

\* A call of GitClientFactory.create.
VARIABLES
    config,           \* the ClientConfig passed to create
    factory_pc,       \* "validate", "construct", "done" ("idle": not in use)
    constructed,      \* the client classes whose constructor has been invoked
    created           \* what create returned or raised

factoryVars == <<config, factory_pc, constructed, created>>

\* A call of one of the stateless functions of the client layer: the
\* sanitizer of error messages and the mappers of provider records.
VARIABLES
    fn_call,          \* the function called and its argument
    fn_ret            \* None until it has returned or raised, then Some(result)

functionVars == <<fn_call, fn_ret>>

\* An object with CacheMixin among its bases, and functions wrapped by its
\* with_cache.
VARIABLES
    mx_self,          \* the class of the object
    mx_cache,         \* self._cache: the cache keys to their CacheEntry
    mx_cache_ttl,     \* self._cache_ttl
    mx_time,          \* time.time()
    mx_invoked,       \* how often the wrapped function has been invoked
    mx_ret            \* the last call of a method of the mixin and its result

mixinVars == <<mx_self, mx_cache, mx_cache_ttl, mx_time, mx_invoked, mx_ret>>

\* A run of PaginationMixin.paginate, called directly or by collect_paginated,
\* over a source that is served page by page.
VARIABLES
    pg_call,          \* the object, the helper, its arguments and the pages of the source
    pg_page,          \* the local variable page
    pg_idx,           \* how many items of the current page have been yielded
    pg_fetched,       \* the page numbers fetch_func was called with, in order
    pg_out,           \* the items yielded (collected) so far: <<page, index>>
    pg_pc             \* "while", "for", "done", "AttributeError", "FetchError"

paginateVars == <<pg_call, pg_page, pg_idx, pg_fetched, pg_out, pg_pc>>

\* A run of GitLabClient.get_existing_comments past the cache lookup.
VARIABLES
    gather            \* the object, the position in the code and the local variables

gatherVars == <<gather>>

vars == <<retryVars, clientVars, pageVars, factoryVars, functionVars, mixinVars, paginateVars, gatherVars>>

nonRetryVars == <<clientVars, pageVars, factoryVars, functionVars, mixinVars, paginateVars, gatherVars>>
nonClientVars == <<retryVars, pageVars, factoryVars, functionVars, mixinVars, paginateVars, gatherVars>>
nonPageVars == <<retryVars, clientVars, factoryVars, functionVars, mixinVars, paginateVars, gatherVars>>
nonFactoryVars == <<retryVars, clientVars, pageVars, functionVars, mixinVars, paginateVars, gatherVars>>
nonFunctionVars == <<retryVars, clientVars, pageVars, factoryVars, mixinVars, paginateVars, gatherVars>>
nonMixinVars == <<retryVars, clientVars, pageVars, factoryVars, functionVars, paginateVars, gatherVars>>
nonPaginateVars == <<retryVars, clientVars, pageVars, factoryVars, functionVars, mixinVars, gatherVars>>
nonGatherVars == <<retryVars, clientVars, pageVars, factoryVars, functionVars, mixinVars, paginateVars>>

\* get_existing_comments when it is not running.
GatherIdle == gather = [pc |-> "idle"]

\* paginate when it is not running.
PaginateIdle ==
    /\ pg_call = [helper |-> "none"]
    /\ pg_page = 0
    /\ pg_idx = 0
    /\ pg_fetched = <<>>
    /\ pg_out = <<>>
    /\ pg_pc = "idle"

\* The pagination helpers when none is running.
PageIdle ==
    /\ page_self = "PaginationMixin"
    /\ page_helper = "none"
    /\ page_source = 0
    /\ max_items = None
    /\ page_out = <<>>
    /\ page_pc = "idle"

\* The factory when create is not being called.
FactoryIdle ==
    /\ config = None
    /\ factory_pc = "idle"
    /\ constructed = {}
    /\ created = "none"

\* No stateless function is being called.
FunctionIdle ==
    /\ fn_call = [fn |-> "none"]
    /\ fn_ret = None

\* No object of the mixin is in use.
MixinIdle ==
    /\ mx_self = "none"
    /\ mx_cache = <<>>
    /\ mx_cache_ttl = 0
    /\ mx_time = 0
    /\ mx_invoked = 0
    /\ mx_ret = [method |-> "none"]

\* effective_max_retries = min(max_retries, MAX_ALLOWED_RETRIES)
effective_max_retries == Min(max_retries, MAX_ALLOWED_RETRIES)

\* Mutant: the stop condition lets one attempt too many through.
stop_after_attempt_late(n) == n > Max(effective_max_retries, 1)

\* stop_after_attempt(max(effective_max_retries, 1))
stop_after_attempt(n) == n >= Max(effective_max_retries, 1)

\* Mutant: the class of the exception is compared by name, subclasses of a
\* retryable class are not retried.
should_retry_exact_class(o) == o.failed /\ o.kind \in retry_on

\* Mutant: every failure is retried, whatever its class.
should_retry_any_failure(o) == o.failed

\* should_retry(retry_state)
should_retry(o) ==
    IF ~o.failed THEN FALSE
    ELSE IF ~IsInstance(o, retry_on) THEN FALSE
    ELSE TRUE

\* Python truthiness of exception.reset_time: None and 0 are false.
Truthy(reset) == reset # None /\ reset[1] # 0

\* tenacity's wait_exponential_jitter(initial, max, jitter): the set of values
\* max(0, min(initial * 2^(attempt_number - 1) + uniform(0, jitter), max)).
wait_exponential_jitter(initial, maxw, jit, n) ==
    {Max(0, Min(initial * Pow2(n - 1) + j, maxw)) : j \in 0..jit}

\* Mutant: the exponent is the attempt number, not the retry count.
wait_strategy_exponent_off(o, n) ==
    IF o.failed /\ IsInstance(o, {"RateLimitError"}) /\ Truthy(o.reset_time)
    THEN {Min(o.reset_time[1], max_wait)}
    ELSE IF jitter
         THEN wait_exponential_jitter(backoff_factor, max_wait, max_wait, n)
         ELSE {Min(backoff_factor * Pow2(n), max_wait)}

\* wait_strategy(retry_state): the set of waits it can return.
wait_strategy(o, n) ==
    IF o.failed /\ IsInstance(o, {"RateLimitError"}) /\ Truthy(o.reset_time)
    THEN {Min(o.reset_time[1], max_wait)}
    ELSE IF jitter
         THEN wait_exponential_jitter(backoff_factor, max_wait, max_wait, n)
         ELSE {Min(backoff_factor * Pow2(Max(n - 1, 0)), max_wait)}

RetryStart ==
    /\ max_retries \in MaxRetriesArgs
    /\ backoff_factor \in 1..MaxBackoff
    /\ max_wait \in (MaxWaitArg - 1)..MaxWaitArg
    /\ jitter \in BOOLEAN
    /\ retry_on \in RetryOnArgs
    /\ func \in Funcs
    /\ pc = "wrap"
    /\ attempt_number = 0
    /\ outcome = NoOutcome
    /\ calls = 0
    /\ sleeps = 0
    /\ wait_time = None
    /\ result = NoOutcome

\* with_retry(func, ...): rejects a negative max_retries, otherwise returns the
\* wrapped function, which the caller then calls.
WithRetry ==
    /\ pc = "wrap"
    /\ IF max_retries < 0
       THEN /\ result' = Exc("ValueError")
            /\ pc' = "done"
            /\ UNCHANGED attempt_number
       ELSE /\ attempt_number' = 1
            /\ pc' = "attempt"
            /\ UNCHANGED result
    /\ UNCHANGED nonRetryVars
    /\ UNCHANGED <<max_retries, backoff_factor, max_wait, jitter, retry_on, func,
                   outcome, calls, sleeps, wait_time>>

\* One attempt: the retry loop calls the wrapped function.
CallFunc ==
    /\ pc = "attempt"
    /\ outcome' = FuncOutcome(func, calls + 1)
    /\ calls' = calls + 1
    /\ pc' = "check"
    /\ UNCHANGED nonRetryVars
    /\ UNCHANGED <<max_retries, backoff_factor, max_wait, jitter, retry_on, func,
                   attempt_number, sleeps, wait_time, result>>

\* should_retry says no: the outcome is handed to the caller (the value is
\* returned, the exception is raised).
ReturnOutcome ==
    /\ pc = "check"
    /\ ~should_retry(outcome)
    /\ result' = outcome
    /\ pc' = "done"
    /\ UNCHANGED nonRetryVars
    /\ UNCHANGED <<max_retries, backoff_factor, max_wait, jitter, retry_on, func,
                   attempt_number, outcome, calls, sleeps, wait_time>>

\* should_retry says yes but stop_after_attempt stops: reraise=True raises the
\* exception of the last attempt.
Exhausted ==
    /\ pc = "check"
    /\ should_retry(outcome)
    /\ stop_after_attempt(attempt_number)
    /\ result' = outcome
    /\ pc' = "done"
    /\ UNCHANGED nonRetryVars
    /\ UNCHANGED <<max_retries, backoff_factor, max_wait, jitter, retry_on, func,
                   attempt_number, outcome, calls, sleeps, wait_time>>

\* should_retry says yes and attempts remain: sleep for wait_strategy's value,
\* then go to the next attempt.
Sleep ==
    /\ pc = "check"
    /\ should_retry(outcome)
    /\ ~stop_after_attempt(attempt_number)
    /\ \E w \in wait_strategy(outcome, attempt_number) : wait_time' = Some(w)
    /\ sleeps' = sleeps + 1
    /\ attempt_number' = attempt_number + 1
    /\ pc' = "attempt"
    /\ UNCHANGED nonRetryVars
    /\ UNCHANGED <<max_retries, backoff_factor, max_wait, jitter, retry_on, func,
                   outcome, calls, result>>

RetryNext ==
    \/ WithRetry
    \/ CallFunc
    \/ ReturnOutcome
    \/ Exhausted
    \/ Sleep

\* The retry wrapper when no wrapped call is under way.
RetryIdle ==
    /\ max_retries = 3
    /\ backoff_factor = 1
    /\ max_wait = 60
    /\ jitter = TRUE
    /\ retry_on = DefaultRetryOn
    /\ func = [fails |-> 0, err |-> Exc("NetworkError"), last |-> Returned]
    /\ pc = "idle"
    /\ attempt_number = 0
    /\ outcome = NoOutcome
    /\ calls = 0
    /\ sleeps = 0
    /\ wait_time = None
    /\ result = NoOutcome

\* ------------------------------------------------------------------------
\* Strings and int(): a string is a sequence of one-character strings
\* ------------------------------------------------------------------------
Digits == {"0", "1", "2", "3", "4", "5", "6", "7", "8", "9"}

DigitValue(c) ==
    CASE c = "0" -> 0 [] c = "1" -> 1 [] c = "2" -> 2 [] c = "3" -> 3 [] c = "4" -> 4
      [] c = "5" -> 5 [] c = "6" -> 6 [] c = "7" -> 7 [] c = "8" -> 8 [] c = "9" -> 9

RECURSIVE Strip(_)
Strip(s) ==
    IF s = <<>> THEN s
    ELSE IF Head(s) = " " THEN Strip(Tail(s))
    ELSE IF s[Len(s)] = " " THEN Strip(SubSeq(s, 1, Len(s) - 1))
    ELSE s

\* The largest integer the ranges of the code mention; Python's integers go
\* on beyond it, the model's do not.
MAX_INT32 == 2147483647

\* The value of a numeral, or -1 once it is above MAX_INT32.
RECURSIVE DigitsValue(_, _)
DigitsValue(s, acc) ==
    IF s = <<>> THEN acc
    ELSE IF acc > (MAX_INT32 - DigitValue(Head(s))) \div 10 THEN -1
    ELSE DigitsValue(Tail(s), 10 * acc + DigitValue(Head(s)))

\* An integer above MAX_INT32, whichever it is.
Beyond == <<MAX_INT32, "and more">>

\* int(s) for a str: None when int() raises ValueError, Some(n) otherwise.
\* Surrounding blanks and one sign are accepted, as Python does.  A value above
\* MAX_INT32 is Beyond; a value below -MAX_INT32 is kept as -MAX_INT32, which
\* every comparison of the code treats alike.
ParseInt(s) ==
    LET t == Strip(s)
        signed == t # <<>> /\ Head(t) \in {"+", "-"}
        body == IF signed THEN Tail(t) ELSE t
        v == DigitsValue(body, 0)
    IN  IF body = <<>> \/ \E i \in 1..Len(body) : body[i] \notin Digits
        THEN None
        ELSE IF signed /\ Head(t) = "-"
             THEN Some(0 - (IF v = -1 THEN MAX_INT32 ELSE v))
             ELSE IF v = -1 THEN Beyond ELSE Some(v)

\* ------------------------------------------------------------------------
\* The client classes
\* ------------------------------------------------------------------------
Clients == {"GitHubClient", "GitLabClient"}

\* The attributes each class of the hierarchy defines.
ClassAttrs ==
    [ GitClient       |-> {"get_pr_info", "get_diff_data", "get_commit_messages",
                           "get_pr_context", "get_existing_comments",
                           "post_comment", "update_comment"},
      BaseGitClient   |-> {"repo", "_load_repository", "_with_retry",
                           "_get_from_cache", "_set_cache", "_clear_cache"},
      CacheMixin      |-> {"_make_cache_key", "with_cache", "clear_cache",
                           "evict_expired", "get_cache_stats"},
      PaginationMixin |-> {"paginate", "collect_paginated", "paginate_github",
                           "paginate_gitlab"},
      RetryMixin      |-> {"with_retry"} ]

\* class GitHubClient(BaseGitClient[Github], CacheMixin, PaginationMixin) and
\* class GitLabClient(BaseGitClient[Gitlab], CacheMixin, PaginationMixin);
\* class BaseGitClient(GitClient, Generic[T], ABC)
ClientBases ==
    [ GitHubClient |-> {"BaseGitClient", "GitClient", "CacheMixin", "PaginationMixin"},
      GitLabClient |-> {"BaseGitClient", "GitClient", "CacheMixin", "PaginationMixin"} ]

\* hasattr(self, name): the attribute is found along the class's bases.
HasAttr(cls, name) == \E b \in ClientBases[cls] : name \in ClassAttrs[b]

\* GitHubClient._validate_pr_id and GitLabClient._validate_mr_id: the PR number,
\* or None when ResourceNotFoundError is raised.
MAX_GITHUB_PR_ID == 999999

\* Mutant: the lower bound of the range check lets zero through.
validate_pr_id_zero_accepted(cls, pr_id) ==
    LET n == ParseInt(pr_id)
    IN  IF n = None \/ n = Beyond THEN None
        ELSE IF cls = "GitHubClient"
             THEN IF n[1] < 0 \/ n[1] > MAX_GITHUB_PR_ID THEN None ELSE n
             ELSE IF ~(0 <= n[1] /\ n[1] <= MAX_INT32) THEN None ELSE n

validate_pr_id(cls, pr_id) ==
    LET n == ParseInt(pr_id)
    IN  IF n = None \/ n = Beyond THEN None
        ELSE IF cls = "GitHubClient"
             THEN IF n[1] <= 0 \/ n[1] > MAX_GITHUB_PR_ID THEN None ELSE n
             ELSE IF ~(1 <= n[1] /\ n[1] <= MAX_INT32) THEN None ELSE n

\* _validate_comment_id: the comment number, or the exception kind raised.
validate_comment_id(cls, comment_id) ==
    LET n == ParseInt(comment_id)
    IN  IF cls = "GitHubClient"
        THEN IF n = None \/ n[1] <= 0
             THEN [ok |-> FALSE, kind |-> "ResourceNotFoundError"]
             ELSE [ok |-> TRUE, kind |-> "int"]
        ELSE IF n = None \/ n = Beyond \/ ~(1 <= n[1] /\ n[1] <= MAX_INT32)
             THEN [ok |-> FALSE, kind |-> "ValueError"]
             ELSE [ok |-> TRUE, kind |-> "int"]

\* A comment text is known by its length and its length once stripped.
MAX_COMMENT_LENGTH == 65536

\* Mutant: the length check of the comment text is left out.
comment_rejected_whatever_length(cls, text) ==
    /\ cls = "GitLabClient"
    /\ \/ text.len = 0 \/ text.stripped = 0

\* GitLabClient.post_comment / update_comment: the checks of the comment text.
\* GitHubClient has none.
comment_rejected(cls, text) ==
    /\ cls = "GitLabClient"
    /\ \/ text.len = 0 \/ text.stripped = 0
       \/ text.len > MAX_COMMENT_LENGTH

\* ------------------------------------------------------------------------
\* self._cache = TTLCache(maxsize=cache_maxsize, ttl=cache_ttl)
\* ------------------------------------------------------------------------
cache_ttl == 2        \* seconds an entry lives
cache_maxsize == 3    \* entries the cache holds

\* key in self._cache: present and not expired
CacheContains(c, key, t) == \E i \in 1..Len(c) : c[i].key = key /\ t < c[i].expires

\* self._cache[key], for a key the cache contains
CacheGet(c, key) == (CHOOSE e \in {c[i] : i \in 1..Len(c)} : e.key = key).value

RECURSIVE DropOldest(_, _)
DropOldest(c, room) == IF Len(c) <= room THEN c ELSE DropOldest(Tail(c), room)

\* Mutant: a new entry is stored without making room for it.
CacheSet_without_eviction(c, key, value, t) ==
    LET Other(e) == e.key # key
        entry == [key |-> key, value |-> value, expires |-> t + cache_ttl]
    IN  IF cache_maxsize < 1 THEN None
        ELSE Some(Append(SelectSeq(c, Other), entry))

\* self._cache[key] = value: expired entries go first, then the oldest entries
\* until the new one fits; None when the cache cannot hold any entry.
CacheSet(c, key, value, t) ==
    LET Live(e) == t < e.expires
        Other(e) == e.key # key
        rest == SelectSeq(SelectSeq(c, Live), Other)
        entry == [key |-> key, value |-> value, expires |-> t + cache_ttl]
    IN  IF cache_maxsize < 1 THEN None
        ELSE Some(Append(DropOldest(rest, cache_maxsize - 1), entry))

\* del self._cache[key]
CacheDel(c, key) ==
    LET Other(e) == e.key # key IN SelectSeq(c, Other)

\* _make_cache_key(pr_id) under the operation's prefix.  The salted SHA-256 of
\* the arguments is kept as the argument string itself: equal strings give
\* equal keys, different strings different keys.
CacheKey(cls, op, pr_id) ==
    LET prefix ==
          CASE op = "get_pr_info" -> IF cls = "GitHubClient" THEN "pr_info" ELSE "mr_info"
            [] op = "get_diff_data" -> "diff_data"
            [] op = "get_commit_messages" -> "commit_messages"
            [] op = "get_pr_context" -> IF cls = "GitHubClient" THEN "pr_context" ELSE "mr_context"
            [] OTHER -> "comments"
    IN  <<prefix, pr_id>>

\* Mutant: get_existing_comments never looks in the cache.
UsesCache_but_for_comments(cls, op) ==
    op \in {"get_pr_info", "get_diff_data", "get_commit_messages", "get_pr_context"}

\* Whether the operation looks its result up in the cache and stores it there.
\* GitHubClient.get_existing_comments does neither.
UsesCache(cls, op) ==
    \/ op \in {"get_pr_info", "get_diff_data", "get_commit_messages", "get_pr_context"}
    \/ op = "get_existing_comments" /\ cls = "GitLabClient"

\* ------------------------------------------------------------------------
\* The provider and the error handlers of the operations
\* ------------------------------------------------------------------------
ExistingPrs == {1, 2}     \* the PR numbers the provider knows

\* An exception inside an operation's try block: its class and whether its
\* text contains "404".
Raised(kind, has404) == [kind |-> kind, has404 |-> has404]

\* self.with_retry on a class without that attribute
AttributeError == Raised("AttributeError", FALSE)

\* What the provider's SDK does for a request on PR number n.
ProviderAnswer(n) ==
    IF ~provider_up THEN [ok |-> FALSE, exc |-> Raised("ConnectionError", FALSE)]
    ELSE IF n \notin ExistingPrs THEN [ok |-> FALSE, exc |-> Raised("SdkError", TRUE)]
    ELSE [ok |-> TRUE, exc |-> Raised("none", FALSE)]

\* The except clauses of the operation: the exception class the caller sees.
Classify(cls, op, e) ==
    IF cls = "GitHubClient"
    THEN IF op = "get_pr_info" /\ e.kind = "ValueError" THEN "ResourceNotFoundError"
         ELSE IF e.has404 THEN "ResourceNotFoundError"
         ELSE "APIError"
    ELSE IF e.kind = "ResourceNotFoundError" THEN "ResourceNotFoundError"
         ELSE IF op \in {"get_pr_info", "update_comment"} /\ e.has404
              THEN "ResourceNotFoundError"
         ELSE "APIError"

\* An exception of the repository load: its class and whether its text
\* mentions 401 / unauthorized, or 404 / not found.
LoadRaised(kind, has401, has404) == [kind |-> kind, has401 |-> has401, has404 |-> has404]

\* What the provider's SDK does when asked for the repository.
RepoAnswer ==
    IF ~provider_up THEN [ok |-> FALSE, exc |-> LoadRaised("ConnectionError", FALSE, FALSE)]
    ELSE IF ~token_valid THEN [ok |-> FALSE, exc |-> LoadRaised("Exception", TRUE, FALSE)]
    ELSE [ok |-> TRUE, exc |-> LoadRaised("none", FALSE, FALSE)]

\* The except clauses of _load_repository: the exception class it raises.
ClassifyLoad(e) ==
    IF e.has401 THEN "AuthenticationError"
    ELSE IF e.has404 THEN "ResourceNotFoundError"
    ELSE "APIError"

\* _load_repository: GitHubClient asks through self.with_retry, GitLabClient
\* asks the SDK directly; the result is the repository or the exception class
\* raised, with the number of requests made.
load_repository(cls) ==
    IF cls = "GitHubClient" /\ ~HasAttr(cls, "with_retry")
    THEN [ok |-> FALSE, requests |-> 0,
          kind |-> ClassifyLoad(LoadRaised("AttributeError", FALSE, FALSE))]
    ELSE IF ~RepoAnswer.ok
    THEN [ok |-> FALSE, requests |-> 1, kind |-> ClassifyLoad(RepoAnswer.exc)]
    ELSE [ok |-> TRUE, requests |-> 1, kind |-> "repository"]

\* The resource ceilings of the clients (the same numbers in both classes).
MAX_FILES_PER_PR == 1000
MAX_COMMENTS_PER_PR == 1000
MAX_COMMITS_PER_PR == 500
MAX_MEMORY_PER_REQUEST == 50 * 1024 * 1024
ESTIMATED_OBJECT_OVERHEAD == 2048
PER_PAGE == 100
MAX_PAGES == 50

\* What the provider holds for PR number n: PR 1 is small, PR 2 is beyond
\* every ceiling.  A discussion (a review thread) holds two notes.
ProviderFiles(n) == IF n = 1 THEN 2 ELSE MAX_FILES_PER_PR + 1
ProviderCommits(n) == IF n = 1 THEN 2 ELSE MAX_COMMITS_PER_PR + 1
ProviderNotes(n) == IF n = 1 THEN remote.comments ELSE 600 + remote.comments
ProviderDiscussions(n) == IF n = 1 THEN 0 ELSE 300
NotesPerDiscussion == 2

\* len(str(obj.__dict__)) of a note or discussion of PR number n: the notes
\* of PR 2 become large once the provider's data has changed.
ObjectSize(n) == IF n = 2 /\ remote.rev > 0 THEN 1000000 ELSE 100

\* GitLabClient._estimate_object_size for an object with a __dict__
estimate_object_size(n) == ObjectSize(n) + ESTIMATED_OBJECT_OVERHEAD

\* for i, item in enumerate(items): if i >= limit: break
Truncate(count, limit) == Min(count, limit)

\* GitLabClient.get_existing_comments, the notes loop: the notes retained and
\* the running size estimate when the loop ends.
RECURSIVE NotesLoop(_, _, _, _)
NotesLoop(n, have, page, mem) ==
    LET want == Min(PER_PAGE, MAX_COMMENTS_PER_PR - have)
        batch == Max(0, Min(want, ProviderNotes(n) - (page - 1) * want))
        batch_memory == batch * estimate_object_size(n)
        stop == [notes |-> have, memory |-> mem]
    IN  IF ~(have < MAX_COMMENTS_PER_PR /\ page <= MAX_PAGES) THEN stop
        ELSE IF mem + PER_PAGE * ESTIMATED_OBJECT_OVERHEAD > MAX_MEMORY_PER_REQUEST THEN stop
        ELSE IF batch = 0 THEN stop
        ELSE IF mem + batch_memory > MAX_MEMORY_PER_REQUEST THEN stop
        ELSE IF batch < PER_PAGE
             THEN [notes |-> have + batch, memory |-> mem + batch_memory]
        ELSE NotesLoop(n, have + batch, page + 1, mem + batch_memory)

\* The discussions loop: the discussion notes held by the retained
\* discussions and the running size estimate when the loop ends.
RECURSIVE DiscussionsLoop(_, _, _, _, _)
DiscussionsLoop(n, got, page, mem, remaining) ==
    LET want == Min(PER_PAGE, remaining)
        batch == Max(0, Min(want, ProviderDiscussions(n) - (page - 1) * want))
        batch_memory == batch * estimate_object_size(n)
        counted == Min(batch, (remaining + NotesPerDiscussion - 1) \div NotesPerDiscussion)
        left == remaining - counted * NotesPerDiscussion
        stop == [notes |-> got, memory |-> mem]
    IN  IF ~(remaining > 0 /\ page <= MAX_PAGES) THEN stop
        ELSE IF mem + PER_PAGE * ESTIMATED_OBJECT_OVERHEAD > MAX_MEMORY_PER_REQUEST THEN stop
        ELSE IF batch = 0 THEN stop
        ELSE IF mem + batch_memory > MAX_MEMORY_PER_REQUEST THEN stop
        ELSE IF left <= 0 \/ batch < PER_PAGE
             THEN [notes |-> got + batch * NotesPerDiscussion, memory |-> mem + batch_memory]
        ELSE DiscussionsLoop(n, got + batch * NotesPerDiscussion, page + 1,
                             mem + batch_memory, left)

\* The comments get_existing_comments gathers and, for GitLabClient, the size
\* estimate it has accumulated.
GatherComments(cls, n) ==
    IF cls = "GitHubClient"
    THEN LET general == Truncate(ProviderNotes(n), MAX_COMMENTS_PER_PR)
             review == Truncate(ProviderDiscussions(n) * NotesPerDiscussion,
                                MAX_COMMENTS_PER_PR - general)
         IN  [count |-> general + review, memory |-> 0]
    ELSE LET notes == NotesLoop(n, 0, 1, 0)
             general == Truncate(notes.notes, MAX_COMMENTS_PER_PR)
             disc == DiscussionsLoop(n, 0, 1, notes.memory, MAX_COMMENTS_PER_PR - general)
         IN  [count |-> general + Truncate(disc.notes, MAX_COMMENTS_PER_PR - general),
              memory |-> disc.memory]

\* The number of items in the operation's result (1 for a single record).
ResultCount(cls, op, n) ==
    CASE op = "get_diff_data" -> Truncate(ProviderFiles(n), MAX_FILES_PER_PR)
      [] op = "get_commit_messages" -> Truncate(ProviderCommits(n), MAX_COMMITS_PER_PR)
      [] op = "get_existing_comments" -> GatherComments(cls, n).count
      [] OTHER -> 1

\* What the provider holds for PR number n, as the operation maps it.
Fetched(op, n) ==
    [of |-> op, number |-> n,
     rev |-> IF op = "get_existing_comments" THEN remote.comments ELSE remote.rev,
     count |-> ResultCount(client, op, n),
     memory |-> IF op = "get_existing_comments" THEN GatherComments(client, n).memory ELSE 0]

NoValue == [of |-> "none", number |-> 0, rev |-> 0, count |-> 0, memory |-> 0]

\* Results of an operation: a value returned or an exception raised, with the
\* number of provider requests the operation made.
OpReturned(v, n) == [failed |-> FALSE, kind |-> "value", value |-> v, requests |-> n]
OpRaised(kind, n) == [failed |-> TRUE, kind |-> kind, value |-> NoValue, requests |-> n]
NoResult == [failed |-> FALSE, kind |-> "none", value |-> NoValue, requests |-> 0]

NoText == [len |-> 0, stripped |-> 0]
\* A call record: the operation, its arguments, the time of the call and the
\* parity of the number of operations called so far.
Call(op, pr_id, comment_id, text) ==
    [op |-> op, pr_id |-> pr_id, comment_id |-> comment_id, text |-> text,
     at |-> now, seq |-> 1 - call.seq]
NoCall ==
    [op |-> "none", pr_id |-> <<>>, comment_id |-> <<>>, text |-> NoText,
     at |-> 0, seq |-> 0]

\* The operation ends: its call and result are recorded.
FinishWith(c, r, newCache, newRemote, newRepo) ==
    /\ call' = c
    /\ ret' = r
    /\ cache' = newCache
    /\ remote' = newRemote
    /\ repo' = newRepo
    /\ UNCHANGED <<client, now, provider_up, token_valid>>
    /\ UNCHANGED nonClientVars

\* The same for an operation that does not touch self._repo.
Finish(c, r, newCache, newRemote) == FinishWith(c, r, newCache, newRemote, repo)

\* The repository once loaded.
Loaded == Some("repository")

\* The repo property: self._repo, loaded on first use; a failed load leaves
\* self._repo at None and raises.
Repo ==
    LET c == Call("repo", <<>>, <<>>, NoText)
        l == load_repository(client)
    IN  IF repo # None
        THEN Finish(c, OpReturned(NoValue, 0), cache, remote)
        ELSE IF ~l.ok
        THEN Finish(c, OpRaised(l.kind, l.requests), cache, remote)
        ELSE FinishWith(c, OpReturned(NoValue, l.requests), cache, remote, Loaded)

\* get_pr_info, get_diff_data, get_commit_messages, get_pr_context and
\* get_existing_comments: validate the id, look in the cache, fetch through
\* self.with_retry, map, store, return; every exception of the try block goes
\* through the except clauses.
ReadOp(op, pr_id) ==
    LET c == Call(op, pr_id, <<>>, NoText)
        n == validate_pr_id(client, pr_id)
        key == CacheKey(client, op, pr_id)
    IN  IF n = None
        THEN Finish(c, OpRaised("ResourceNotFoundError", 0), cache, remote)
        ELSE IF UsesCache(client, op) /\ CacheContains(cache, key, now)
        THEN Finish(c, OpReturned(CacheGet(cache, key), 0), cache, remote)
        ELSE IF ~HasAttr(client, "with_retry")
        THEN Finish(c, OpRaised(Classify(client, op, AttributeError), 0), cache, remote)
        ELSE LET a == ProviderAnswer(n[1])
                 l == load_repository(client)
                 stored == CacheSet(cache, key, Fetched(op, n[1]), now)
             IN  IF repo = None /\ ~l.ok
                 THEN Finish(c, OpRaised(Classify(client, op, Raised(l.kind, FALSE)), l.requests),
                             cache, remote)
                 ELSE IF ~a.ok
                 THEN FinishWith(c, OpRaised(Classify(client, op, a.exc), 1), cache, remote, Loaded)
                 ELSE IF ~UsesCache(client, op)
                 THEN FinishWith(c, OpReturned(Fetched(op, n[1]), 1), cache, remote, Loaded)
                 ELSE IF stored = None
                 THEN FinishWith(c, OpRaised(Classify(client, op, Raised("ValueError", FALSE)), 1),
                                 cache, remote, Loaded)
                 ELSE FinishWith(c, OpReturned(Fetched(op, n[1]), 1), stored[1], remote, Loaded)

\* post_comment and update_comment: validate, write through self.with_retry,
\* and (GitLabClient only) drop the cached comment list of the id.
WriteOp(op, pr_id, comment_id, text) ==
    LET c == Call(op, pr_id, comment_id, text)
        n == validate_pr_id(client, pr_id)
        cid == validate_comment_id(client, comment_id)
        key == CacheKey(client, "get_existing_comments", pr_id)
    IN  IF n = None
        THEN Finish(c, OpRaised("ResourceNotFoundError", 0), cache, remote)
        ELSE IF op = "update_comment" /\ ~cid.ok
        THEN Finish(c, OpRaised(cid.kind, 0), cache, remote)
        ELSE IF comment_rejected(client, text)
        THEN Finish(c, OpRaised("ValueError", 0), cache, remote)
        ELSE IF ~HasAttr(client, "with_retry")
        THEN Finish(c, OpRaised(Classify(client, op, AttributeError), 0), cache, remote)
        ELSE LET a == ProviderAnswer(n[1])
                 l == load_repository(client)
                 written == IF op = "post_comment"
                            THEN [remote EXCEPT !.comments = @ + 1]
                            ELSE [remote EXCEPT !.rev = @]
             IN  IF repo = None /\ ~l.ok
                 THEN Finish(c, OpRaised(Classify(client, op, Raised(l.kind, FALSE)), l.requests),
                             cache, remote)
                 ELSE IF ~a.ok
                 THEN FinishWith(c, OpRaised(Classify(client, op, a.exc), 1), cache, remote, Loaded)
                 ELSE FinishWith(c, OpReturned(NoValue, 2),
                                 IF client = "GitLabClient" THEN CacheDel(cache, key) ELSE cache,
                                 written, Loaded)

\* ------------------------------------------------------------------------
\* Arguments the operations are called with
\* ------------------------------------------------------------------------
MaxTime == 2          \* the clock runs from 0 to MaxTime
MaxRev == 1           \* the provider's data changes at most MaxRev times
MaxComments == 2      \* comments the provider holds at most

PrIdArgs ==
    {<<"1">>, <<"2">>, <<"0">>, <<"x">>, <<"-", "1">>,
     <<"1", "0", "0", "0", "0", "0", "0">>,
     <<"2", "1", "4", "7", "4", "8", "3", "6", "4", "8">>}
CommentIdArgs == {<<"7">>, <<"0">>}
TextArgs == {[len |-> 2, stripped |-> 2], [len |-> 2, stripped |-> 0], NoText,
             [len |-> MAX_COMMENT_LENGTH + 1, stripped |-> MAX_COMMENT_LENGTH + 1]}

GetPrInfo == \E pr_id \in PrIdArgs : ReadOp("get_pr_info", pr_id)
GetDiffData == \E pr_id \in PrIdArgs : ReadOp("get_diff_data", pr_id)
GetCommitMessages == \E pr_id \in PrIdArgs : ReadOp("get_commit_messages", pr_id)
GetPrContext == \E pr_id \in PrIdArgs : ReadOp("get_pr_context", pr_id)
GetExistingComments == \E pr_id \in PrIdArgs : ReadOp("get_existing_comments", pr_id)
PostComment ==
    /\ remote.comments < MaxComments
    /\ \E pr_id \in PrIdArgs, text \in TextArgs :
          WriteOp("post_comment", pr_id, <<>>, text)
UpdateComment ==
    \E pr_id \in PrIdArgs, comment_id \in CommentIdArgs, text \in TextArgs :
        WriteOp("update_comment", pr_id, comment_id, text)

\* Time passes.
Tick ==
    /\ now < MaxTime
    /\ now' = now + 1
    /\ UNCHANGED <<client, cache, remote, provider_up, token_valid, repo, call, ret>>
    /\ UNCHANGED nonClientVars

\* The provider's data changes behind the client's back.
ProviderChange ==
    /\ remote.rev < MaxRev
    /\ remote' = [remote EXCEPT !.rev = @ + 1]
    /\ UNCHANGED <<client, cache, now, provider_up, token_valid, repo, call, ret>>
    /\ UNCHANGED nonClientVars

ClientStart ==
    /\ client \in Clients
    /\ cache = <<>>
    /\ now = 0
    /\ remote = [rev |-> 0, comments |-> 0]
    /\ provider_up \in BOOLEAN
    /\ token_valid \in BOOLEAN
    /\ repo = None
    /\ call = NoCall
    /\ ret = NoResult

\* The client before any operation, for runs of the retry wrapper alone.
ClientIdle ==
    /\ client = "GitHubClient"
    /\ cache = <<>>
    /\ now = 0
    /\ remote = [rev |-> 0, comments |-> 0]
    /\ provider_up = TRUE
    /\ token_valid = TRUE
    /\ repo = None
    /\ call = NoCall
    /\ ret = NoResult

ClientNext ==
    \/ Repo
    \/ GetPrInfo
    \/ GetDiffData
    \/ GetCommitMessages
    \/ GetPrContext
    \/ GetExistingComments
    \/ PostComment
    \/ UpdateComment
    \/ Tick
    \/ ProviderChange

ClientInit == ClientStart /\ RetryIdle /\ PageIdle /\ FactoryIdle /\ FunctionIdle /\ MixinIdle /\ PaginateIdle /\ GatherIdle

\* ------------------------------------------------------------------------
\* The cache helpers the clients inherit from BaseGitClient
\* ------------------------------------------------------------------------
CachedOps == {"get_pr_info", "get_diff_data", "get_commit_messages"}
CachedIds == {<<"1">>, <<"2">>}

\* _set_cache(key, value): self._cache[key] = value; the ValueError of a cache
\* that can hold nothing is raised to the caller.
SetCache ==
    \E op \in CachedOps, pr_id \in CachedIds :
        LET c == Call("_set_cache", pr_id, <<>>, NoText)
            stored == CacheSet(cache, CacheKey(client, op, pr_id),
                               Fetched(op, DigitsValue(pr_id, 0)), now)
        IN  IF stored = None
            THEN Finish(c, OpRaised("ValueError", 0), cache, remote)
            ELSE Finish(c, OpReturned(NoValue, 0), stored[1], remote)

\* _clear_cache(pattern): without a pattern the cache is emptied; with one,
\* the entries it still serves whose key contains the pattern are deleted.
ClearCache ==
    \E pattern \in {None} \cup {Some(CacheKey(client, op, <<>>)[1]) : op \in CachedOps} :
        LET c == Call("_clear_cache", <<>>, <<>>, NoText)
            Kept(e) == ~(now < e.expires /\ e.key[1] = pattern[1])
        IN  IF pattern = None
            THEN Finish(c, OpReturned(NoValue, 0), <<>>, remote)
            ELSE Finish(c, OpReturned(NoValue, 0), SelectSeq(cache, Kept), remote)

CacheNext ==
    \/ SetCache
    \/ ClearCache
    \/ Tick

CacheSpec == ClientInit /\ [][CacheNext]_vars

\* _set_cache with the key and the value get_existing_comments would store, or
\* those of get_pr_context.
SetCommentsCache ==
    \E op \in {"get_existing_comments", "get_pr_context"}, pr_id \in CachedIds :
        LET c == Call("_set_cache", pr_id, <<>>, NoText)
            stored == CacheSet(cache, CacheKey(client, op, pr_id),
                               Fetched(op, DigitsValue(pr_id, 0)), now)
        IN  IF stored = None
            THEN Finish(c, OpRaised("ValueError", 0), cache, remote)
            ELSE Finish(c, OpReturned(NoValue, 0), stored[1], remote)

\* The comment operations on a client whose cache holds entries, called with
\* the ids CommentPrIds within the lifetime of the entries.
CommentPrIds == {<<"1">>, <<"2">>, <<"0">>}

CommentNext ==
    \/ SetCommentsCache
    \/ \E pr_id \in CommentPrIds : ReadOp("get_existing_comments", pr_id)
    \/ \E pr_id \in CommentPrIds, text \in TextArgs :
          WriteOp("post_comment", pr_id, <<>>, text)
    \/ \E pr_id \in CommentPrIds, comment_id \in CommentIdArgs, text \in TextArgs :
          WriteOp("update_comment", pr_id, comment_id, text)

CommentSpec == ClientInit /\ [][CommentNext]_vars

ClientSpec == ClientInit /\ [][ClientNext]_vars

RetryInit == RetryStart /\ ClientIdle /\ PageIdle /\ FactoryIdle /\ FunctionIdle /\ MixinIdle /\ PaginateIdle /\ GatherIdle

RetrySpec == RetryInit /\ [][RetryNext]_vars

\* ------------------------------------------------------------------------
\* PaginationMixin: collect_paginated, paginate_github, paginate_gitlab
\* ------------------------------------------------------------------------
MaxItems == 3         \* the item source holds 0..MaxItems items

\* The __init__ methods that run when an instance of the class is built:
\* BaseGitClient.__init__ does not call super().__init__, so the mixins'
\* constructors never run for the clients; a class that only derives from
\* PaginationMixin runs PaginationMixin.__init__.
InitsRun ==
    [ GitHubClient    |-> {"GitHubClient", "BaseGitClient"},
      GitLabClient    |-> {"GitLabClient", "BaseGitClient"},
      PaginationMixin |-> {"PaginationMixin"} ]

\* self._pagination_logger exists: PaginationMixin.__init__ has set it.
HasPaginationLogger(cls) == "PaginationMixin" \in InitsRun[cls]

PageHelpers == {"collect_paginated", "paginate_github", "paginate_gitlab"}

PageStart ==
    /\ page_self \in DOMAIN InitsRun
    /\ page_helper \in PageHelpers
    /\ page_source \in 0..MaxItems
    /\ max_items \in {None} \cup {Some(m) : m \in 0..(MaxItems + 1)}
    /\ page_out = <<>>
    /\ page_pc = "call"

\* The helper is entered.  collect_paginated iterates self.paginate, whose
\* first statement of the loop logs through self._pagination_logger.
PageCall ==
    /\ page_pc = "call"
    /\ page_pc' = IF page_helper = "collect_paginated" /\ ~HasPaginationLogger(page_self)
                  THEN "raised" ELSE "run"
    /\ UNCHANGED <<page_self, page_helper, page_source, max_items, page_out>>
    /\ UNCHANGED nonPageVars

\* The source has a next item: it is yielded (appended to the results), then
\* the count is compared with max_items; reaching it is logged through
\* self._pagination_logger and ends the loop.
PageYield ==
    /\ page_pc = "run"
    /\ Len(page_out) < page_source
    /\ page_out' = Append(page_out, Len(page_out) + 1)
    /\ page_pc' = IF max_items # None /\ Len(page_out) + 1 >= max_items[1]
                  THEN IF HasPaginationLogger(page_self) THEN "done" ELSE "raised"
                  ELSE "run"
    /\ UNCHANGED <<page_self, page_helper, page_source, max_items>>
    /\ UNCHANGED nonPageVars

\* The source is exhausted: the loop ends.
PageExhausted ==
    /\ page_pc = "run"
    /\ Len(page_out) = page_source
    /\ page_pc' = "done"
    /\ UNCHANGED <<page_self, page_helper, page_source, max_items, page_out>>
    /\ UNCHANGED nonPageVars

PageNext ==
    \/ PageCall
    \/ PageYield
    \/ PageExhausted

PageInit == PageStart /\ RetryIdle /\ ClientIdle /\ FactoryIdle /\ FunctionIdle /\ MixinIdle /\ PaginateIdle /\ GatherIdle

PageSpec == PageInit /\ [][PageNext]_vars

\* ------------------------------------------------------------------------
\* GitClientFactory: validation of a configuration, then construction
\* ------------------------------------------------------------------------
Lowercase == <<"a", "b", "c", "d", "e", "f", "g", "h", "i", "j", "k", "l", "m", "n", "o", "p", "q", "r", "s", "t", "u", "v", "w", "x", "y", "z">>
Uppercase == <<"A", "B", "C", "D", "E", "F", "G", "H", "I", "J", "K", "L", "M", "N", "O", "P", "Q", "R", "S", "T", "U", "V", "W", "X", "Y", "Z">>

\* [a-zA-Z0-9]
Alnum == {Lowercase[k] : k \in 1..26} \cup {Uppercase[k] : k \in 1..26} \cup Digits

\* str.lower()
Lower(s) ==
    [ i \in 1..Len(s) |->
        IF \E k \in 1..26 : Uppercase[k] = s[i]
        THEN Lowercase[CHOOSE k \in 1..26 : Uppercase[k] = s[i]]
        ELSE s[i] ]

\* str.startswith(p)
StartsWith(s, p) == Len(s) >= Len(p) /\ SubSeq(s, 1, Len(p)) = p

\* p in s
Contains(s, p) == \E i \in 1..(Len(s) - Len(p) + 1) : SubSeq(s, i, i + Len(p) - 1) = p

\* c * n
Rep(c, n) == [i \in 1..n |-> c]

\* What a pattern ending in $ sees as the string: $ matches at the end and
\* also just before one final newline.
BeforeDollar(s) ==
    IF s # <<>> /\ s[Len(s)] = "\n" THEN {s, SubSeq(s, 1, Len(s) - 1)} ELSE {s}

\* ^ghp_[a-zA-Z0-9]{36}$ or ^github_pat_[a-zA-Z0-9]{22}_[a-zA-Z0-9]{59}$
GITHUB_TOKEN_PATTERNS(token) ==
    \E t \in BeforeDollar(token) :
        \/ /\ StartsWith(t, <<"g", "h", "p", "_">>)
           /\ Len(t) = 4 + 36
           /\ \A i \in 5..Len(t) : t[i] \in Alnum
        \/ /\ StartsWith(t, <<"g", "i", "t", "h", "u", "b", "_", "p", "a", "t", "_">>)
           /\ Len(t) = 11 + 22 + 1 + 59
           /\ \A i \in 12..33 : t[i] \in Alnum
           /\ t[34] = "_"
           /\ \A i \in 35..93 : t[i] \in Alnum

\* ^glpat-[a-zA-Z0-9_\-]{20,}$ or ^glprt-[a-zA-Z0-9_\-]{20,}$
GITLAB_TOKEN_PATTERNS(token) ==
    \E t \in BeforeDollar(token) :
        /\ StartsWith(t, <<"g", "l", "p", "a", "t", "-">>) \/ StartsWith(t, <<"g", "l", "p", "r", "t", "-">>)
        /\ Len(t) >= 6 + 20
        /\ \A i \in 7..Len(t) : t[i] \in Alnum \cup {"_", "-"}

\* _validate_token: "ok", or the exception it raises.  The format error is
\* raised only by a token that matches no pattern and does not start with
\* one of the provider's prefixes either.
validate_token(token, provider) ==
    IF token = <<>> THEN "AuthenticationError"
    ELSE IF LET token_lower == Lower(token)
            IN  \E p \in {<<"t", "e", "s", "t">>, <<"e", "x", "a", "m", "p", "l", "e">>,
                          <<"d", "e", "m", "o">>, <<"t", "o", "k", "e", "n">>,
                          <<"f", "a", "k", "e", "_", "t", "o", "k", "e", "n">>} :
                    StartsWith(token_lower, p)
         THEN "AuthenticationError"
    ELSE IF Len(token) < 20 THEN "AuthenticationError"
    ELSE IF /\ provider = "github"
            /\ ~GITHUB_TOKEN_PATTERNS(token)
            /\ ~(StartsWith(token, <<"g", "h", "p", "_">>) \/ StartsWith(token, <<"g", "i", "t", "h", "u", "b", "_", "p", "a", "t", "_">>))
         THEN "AuthenticationError"
    ELSE IF /\ provider = "gitlab"
            /\ ~GITLAB_TOKEN_PATTERNS(token)
            /\ ~(StartsWith(token, <<"g", "l", "p", "a", "t", "-">>) \/ StartsWith(token, <<"g", "l", "p", "r", "t", "-">>))
         THEN "AuthenticationError"
    ELSE "ok"

\* ^[a-zA-Z0-9_.-]+/[a-zA-Z0-9_.-]+$
REPO_PATTERN(s) ==
    \E t \in BeforeDollar(s) : \E k \in 2..(Len(t) - 1) :
        /\ t[k] = "/"
        /\ \A i \in (1..Len(t)) \ {k} : t[i] \in Alnum \cup {"_", ".", "-"}

\* ^\d+$
GITLAB_ID_PATTERN(s) ==
    \E t \in BeforeDollar(s) : t # <<>> /\ \A i \in 1..Len(t) : t[i] \in Digits

\* GitClientFactory._validate_repo_identifier: "ok", or the exception.
validate_repo_identifier(repo_identifier, provider) ==
    IF repo_identifier = <<>> THEN "ValueError"
    ELSE IF \E p \in {<<".", ".", "/">>, <<".", ".">>, <<"/", "/">>, <<"\\">>, <<"\n">>,
                      <<"\r">>, <<";">>, <<"&">>, <<"|">>, <<"$">>} :
               Contains(repo_identifier, p)
         THEN "ValueError"
    ELSE IF provider = "github" /\ ~REPO_PATTERN(repo_identifier) THEN "ValueError"
    ELSE IF /\ provider = "gitlab"
            /\ ~GITLAB_ID_PATTERN(repo_identifier)
            /\ ~REPO_PATTERN(repo_identifier)
         THEN "ValueError"
    ELSE "ok"

\* The first position of s holding one of the characters, Len(s) + 1 if none.
Find(s, chars) ==
    LET I == {i \in 1..Len(s) : s[i] \in chars}
    IN  IF I = {} THEN Len(s) + 1 ELSE CHOOSE i \in I : \A j \in I : i <= j

\* urllib.parse.urlparse, as far as scheme, netloc and hostname go: the
\* scheme is what stands before the first colon if that is a letter followed
\* by letters, digits, "+", "-" or "."; the netloc is what follows "//" up to
\* the next "/", "?" or "#"; the hostname is the netloc without user
\* information and port, in lower case, None when empty.
urlparse(url) ==
    LET IsScheme(head) ==
            /\ head # <<>>
            /\ Lower(<<head[1]>>)[1] \in {Lowercase[k] : k \in 1..26}
            /\ \A i \in 1..Len(head) : head[i] \in Alnum \cup {"+", "-", "."}
        UpToPath(s) == SubSeq(s, 1, Find(s, {"/", "?", "#"}) - 1)
        NetlocOf(rest) ==
            IF StartsWith(rest, <<"/", "/">>) THEN UpToPath(SubSeq(rest, 3, Len(rest)))
            ELSE <<>>
        AfterLastAt(netloc) ==
            LET ats == {i \in 1..Len(netloc) : netloc[i] = "@"}
            IN  IF ats = {} THEN netloc
                ELSE SubSeq(netloc, (CHOOSE i \in ats : \A j \in ats : j <= i) + 1,
                            Len(netloc))
        HostOf(hostport) ==
            IF hostport # <<>> /\ hostport[1] = "["
            THEN SubSeq(hostport, 2, Find(hostport, {"]"}) - 1)
            ELSE SubSeq(hostport, 1, Find(hostport, {":"}) - 1)
        Hostname(host) == IF host = <<>> THEN None ELSE Some(Lower(host))
        Parsed(scheme, netloc) ==
            [ scheme   |-> scheme,
              netloc   |-> netloc,
              hostname |-> Hostname(HostOf(AfterLastAt(netloc))) ]
        Split(colon) ==
            IF colon <= Len(url) /\ IsScheme(SubSeq(url, 1, colon - 1))
            THEN Parsed(Lower(SubSeq(url, 1, colon - 1)),
                        NetlocOf(SubSeq(url, colon + 1, Len(url))))
            ELSE Parsed(<<>>, NetlocOf(url))
    IN  Split(Find(url, {":"}))

FORBIDDEN_HOSTS ==
    { <<"l", "o", "c", "a", "l", "h", "o", "s", "t">>,
      <<"1", "2", "7", ".", "0", ".", "0", ".", "1">>,
      <<"0", ".", "0", ".", "0", ".", "0">>,
      <<"1", "6", "9", ".", "2", "5", "4", ".", "1", "6", "9", ".", "2", "5", "4">>,
      <<":", ":", "1">>,
      <<"[", ":", ":", "1", "]">> }

\* _validate_base_url: "ok", or the exception.  No base_url, or an empty
\* one, is accepted without a look.
validate_base_url(base_url) ==
    LET InPrivate172(octet) ==
            IF octet = None THEN "ValueError"        \* int() raises it
            ELSE IF octet # Beyond /\ 16 <= octet[1] /\ octet[1] <= 31 THEN "ValueError"
            ELSE "ok"
        UpToDot(s) == SubSeq(s, 1, Find(s, {"."}) - 1)
        SecondOctet(hostname) ==
            ParseInt(UpToDot(SubSeq(hostname, Find(hostname, {"."}) + 1, Len(hostname))))
        CheckHost(hostname) ==
            IF Lower(hostname) \in FORBIDDEN_HOSTS THEN "ValueError"
            ELSE IF StartsWith(hostname, <<"1", "0", ".">>) THEN "ValueError"
            ELSE IF StartsWith(hostname, <<"1", "9", "2", ".", "1", "6", "8", ".">>)
                 THEN "ValueError"
            ELSE IF StartsWith(hostname, <<"1", "7", "2", ".">>)
                 THEN InPrivate172(SecondOctet(hostname))
            ELSE "ok"
        CheckParsed(parsed) ==
            IF parsed.scheme \notin {<<"h", "t", "t", "p">>, <<"h", "t", "t", "p", "s">>}
            THEN "ValueError"
            ELSE IF parsed.netloc = <<>> THEN "ValueError"
            ELSE IF parsed.hostname = None THEN "ok"
            ELSE CheckHost(parsed.hostname[1])
    IN  IF base_url = None \/ base_url[1] = <<>> THEN "ok"
        ELSE CheckParsed(urlparse(base_url[1]))

\* Mutant: a page size of 0 is let through.
validate_numeric_params_per_page_from_zero(cfg) ==
    IF ~(0 <= cfg.cache_ttl /\ cfg.cache_ttl <= 86400) THEN "ValueError"
    ELSE IF ~(0 <= cfg.cache_maxsize /\ cfg.cache_maxsize <= 10000) THEN "ValueError"
    ELSE IF ~(0 <= cfg.max_retries /\ cfg.max_retries <= 10) THEN "ValueError"
    ELSE IF ~(0 <= cfg.backoff_factor /\ cfg.backoff_factor <= 50) THEN "ValueError"
    ELSE IF ~(0 <= cfg.per_page /\ cfg.per_page <= 100) THEN "ValueError"
    ELSE "ok"

\* _validate_numeric_params: "ok", or the exception.  backoff_factor is held
\* in tenths.
validate_numeric_params(cfg) ==
    IF ~(0 <= cfg.cache_ttl /\ cfg.cache_ttl <= 86400) THEN "ValueError"
    ELSE IF ~(0 <= cfg.cache_maxsize /\ cfg.cache_maxsize <= 10000) THEN "ValueError"
    ELSE IF ~(0 <= cfg.max_retries /\ cfg.max_retries <= 10) THEN "ValueError"
    ELSE IF ~(0 <= cfg.backoff_factor /\ cfg.backoff_factor <= 50) THEN "ValueError"
    ELSE IF ~(1 <= cfg.per_page /\ cfg.per_page <= 100) THEN "ValueError"
    ELSE "ok"

\* Mutant: the numeric parameters are not looked at.
validate_config_without_numeric(cfg) ==
    IF validate_token(cfg.token, cfg.provider) # "ok"
    THEN validate_token(cfg.token, cfg.provider)
    ELSE IF validate_repo_identifier(cfg.repo_identifier, cfg.provider) # "ok"
    THEN validate_repo_identifier(cfg.repo_identifier, cfg.provider)
    ELSE validate_base_url(cfg.base_url)

\* _validate_config: the four checks in order; the first that raises ends it.
validate_config(cfg) ==
    IF validate_token(cfg.token, cfg.provider) # "ok"
    THEN validate_token(cfg.token, cfg.provider)
    ELSE IF validate_repo_identifier(cfg.repo_identifier, cfg.provider) # "ok"
    THEN validate_repo_identifier(cfg.repo_identifier, cfg.provider)
    ELSE IF validate_base_url(cfg.base_url) # "ok"
    THEN validate_base_url(cfg.base_url)
    ELSE validate_numeric_params(cfg.numeric)

\* The _validate_repo_identifier of the client classes, run at the end of
\* their constructors: "ok", or the exception.
client_validate_repo_identifier(cls, identifier) ==
    IF cls = "GitHubClient"
    THEN IF REPO_PATTERN(identifier) THEN "ok" ELSE "ValueError"
    ELSE IF Len(identifier) > 255 THEN "ValueError"
    ELSE IF \A i \in 1..Len(identifier) : identifier[i] \in Digits
         THEN IF identifier # <<>> /\ ParseInt(identifier) # Beyond
                 /\ ParseInt(identifier)[1] >= 1
              THEN "ok" ELSE "ValueError"
    ELSE IF ~Contains(identifier, <<"/">>) THEN "ValueError"
    ELSE IF \E i \in 1..Len(identifier) :
                identifier[i] \notin Alnum \cup {"-", "_", "/", ".", "~"}
         THEN "ValueError"
    ELSE "ok"

DEFAULT_CONFIG ==
    [cache_ttl |-> 300, cache_maxsize |-> 500, max_retries |-> 3,
     backoff_factor |-> 10, per_page |-> 100]

TokenArgs ==
    { <<>>,
      <<"g", "h", "p", "_">> \o Rep("a", 36),
      <<"g", "h", "p", "_">> \o Rep("a", 36) \o <<"\n">>,
      <<"g", "h", "p", "_">> \o Rep("a", 20),
      <<"g", "h", "p", "_">> \o <<"a", "b", "c">>,
      <<"g", "i", "t", "h", "u", "b", "_", "p", "a", "t", "_">> \o Rep("B", 22) \o <<"_">> \o Rep("7", 59),
      <<"g", "l", "p", "a", "t", "-">> \o Rep("c", 20),
      <<"g", "l", "p", "a", "t", "-">> \o Rep("c", 19),
      <<"g", "l", "p", "r", "t", "-">> \o Rep("-", 10) \o Rep("_", 15),
      Rep("x", 40),
      <<"T", "e", "s", "t">> \o Rep("x", 36) }

RepoArgs ==
    { <<>>,
      <<"o", "w", "n", "e", "r", "/", "r", "e", "p", "o">>,
      <<"o", "w", "n", "e", "r">>,
      <<"1", "2", "3">>,
      <<"0">>,
      <<"a", "/", ".", ".", "/", "b">>,
      <<"g", "r", "o", "u", "p", "/", "s", "u", "b", "g", "r", "o", "u", "p", "/", "p", "r", "o", "j", "e", "c", "t">> }

BaseUrlArgs ==
    { None, Some(<<>>),
      Some(<<"h", "t", "t", "p", "s", ":", "/", "/", "a", "p", "i", ".", "e", "x", "a", "m", "p", "l", "e", ".", "c", "o", "m">>),
      Some(<<"H", "T", "T", "P", ":", "/", "/", "L", "O", "C", "A", "L", "H", "O", "S", "T", ":", "8", "0", "8", "0">>),
      Some(<<"h", "t", "t", "p", ":", "/", "/", "[", ":", ":", "1", "]">>),
      Some(<<"h", "t", "t", "p", ":", "/", "/", "1", "2", "7", ".", "0", ".", "0", ".", "2">>),
      Some(<<"h", "t", "t", "p", ":", "/", "/", "1", "6", "9", ".", "2", "5", "4", ".", "1", "6", "9", ".", "2", "5", "4">>),
      Some(<<"h", "t", "t", "p", ":", "/", "/", "1", "0", ".", "0", ".", "0", ".", "1">>),
      Some(<<"h", "t", "t", "p", ":", "/", "/", "u", "s", "e", "r", "@", "1", "9", "2", ".", "1", "6", "8", ".", "1", ".", "1", "/", "x">>),
      Some(<<"h", "t", "t", "p", ":", "/", "/", "1", "7", "2", ".", "1", "6", ".", "0", ".", "1">>),
      Some(<<"h", "t", "t", "p", ":", "/", "/", "1", "7", "2", ".", "3", "2", ".", "0", ".", "1">>),
      Some(<<"f", "t", "p", ":", "/", "/", "e", "x", "a", "m", "p", "l", "e", ".", "c", "o", "m">>),
      Some(<<"h", "t", "t", "p", "s", ":", "/", "/">>) }

NumericArgs ==
    { DEFAULT_CONFIG,
      [cache_ttl |-> 0, cache_maxsize |-> 0, max_retries |-> 0,
       backoff_factor |-> 0, per_page |-> 1],
      [cache_ttl |-> 86400, cache_maxsize |-> 10000, max_retries |-> 10,
       backoff_factor |-> 50, per_page |-> 100],
      [DEFAULT_CONFIG EXCEPT !.cache_ttl = 86401],
      [DEFAULT_CONFIG EXCEPT !.cache_maxsize = -1],
      [DEFAULT_CONFIG EXCEPT !.max_retries = 11],
      [DEFAULT_CONFIG EXCEPT !.backoff_factor = 51],
      [DEFAULT_CONFIG EXCEPT !.per_page = 0],
      [DEFAULT_CONFIG EXCEPT !.per_page = 101] }

\* create is called with a configuration.
FactoryStart ==
    /\ config \in [ provider        : {"github", "gitlab"},
                    token           : TokenArgs,
                    repo_identifier : RepoArgs,
                    base_url        : BaseUrlArgs,
                    numeric         : NumericArgs ]
    /\ factory_pc = "validate"
    /\ constructed = {}
    /\ created = "none"

\* create, first statement: _validate_config(config).  An exception of a
\* check leaves create at once.
ValidateConfig ==
    /\ factory_pc = "validate"
    /\ IF validate_config(config) = "ok"
       THEN factory_pc' = "construct" /\ created' = created
       ELSE factory_pc' = "done" /\ created' = validate_config(config)
    /\ UNCHANGED <<config, constructed>>
    /\ UNCHANGED nonFactoryVars

\* What can go wrong in the try block of create apart from the client's own
\* checks: nothing, the import of the client module (a missing dependency),
\* or the SDK object the constructor builds.
ConstructionFailures == {"none", "ImportError", "Exception"}

\* create, the try block: the class of the provider is imported and its
\* constructor called.  An ImportError, and any exception other than
\* UnsupportedProviderError, AuthenticationError and ValueError, is raised on
\* as ClientCreationError; those three are raised on as they are, the
\* ValueError of the constructor's _validate_repo_identifier among them.
ConstructClient ==
    /\ factory_pc = "construct"
    /\ \E failure \in ConstructionFailures :
         LET cls == IF config.provider = "github" THEN "GitHubClient" ELSE "GitLabClient"
         IN  /\ constructed' = IF failure = "ImportError" THEN constructed
                               ELSE constructed \cup {cls}
             /\ created' =
                  IF failure # "none" THEN "ClientCreationError"
                  ELSE IF client_validate_repo_identifier(cls, config.repo_identifier) = "ok"
                       THEN cls
                       ELSE "ValueError"
    /\ factory_pc' = "done"
    /\ UNCHANGED config
    /\ UNCHANGED nonFactoryVars

FactoryNext ==
    \/ ValidateConfig
    \/ ConstructClient

FactoryInit == FactoryStart /\ RetryIdle /\ ClientIdle /\ PageIdle /\ FunctionIdle /\ MixinIdle /\ PaginateIdle /\ GatherIdle

FactorySpec == FactoryInit /\ [][FactoryNext]_vars

\* ------------------------------------------------------------------------
\* GitLabClient._sanitize_error_message
\* ------------------------------------------------------------------------
\* \s of the patterns; \S is every other character.
Whitespace == {" ", "\t", "\n", "\r"}

\* SENSITIVE_PATTERNS, all compiled with re.IGNORECASE.  Each is a literal
\* (lits: its spellings, in lower case), then a separator (one: [=:]; many:
\* [=:\s]+; none), then at least min and at most max characters of \S.
SENSITIVE_PATTERNS ==
    << [lits |-> {<<"t", "o", "k", "e", "n">>}, sep |-> "one", min |-> 1, max |-> 100],
       [lits |-> {<<"a", "p", "i", "k", "e", "y">>,
                  <<"a", "p", "i", "_", "k", "e", "y">>,
                  <<"a", "p", "i", "-", "k", "e", "y">>},
        sep |-> "one", min |-> 1, max |-> 100],
       [lits |-> {<<"p", "a", "s", "s", "w", "o", "r", "d">>}, sep |-> "one", min |-> 1, max |-> 100],
       [lits |-> {<<"s", "e", "c", "r", "e", "t">>}, sep |-> "one", min |-> 1, max |-> 100],
       [lits |-> {<<"g", "l", "p", "a", "t", "-">>}, sep |-> "none", min |-> 20, max |-> 5000],
       [lits |-> {<<"p", "r", "i", "v", "a", "t", "e", "t", "o", "k", "e", "n">>,
                  <<"p", "r", "i", "v", "a", "t", "e", "_", "t", "o", "k", "e", "n">>,
                  <<"p", "r", "i", "v", "a", "t", "e", "-", "t", "o", "k", "e", "n">>},
        sep |-> "many", min |-> 1, max |-> 100] >>

\* Where a match of the pattern that starts at position i of s ends, 0 if
\* there is none.  The quantifiers are greedy.
MatchEnd(s, i, pat) ==
    LET Secret(j) ==
            IF Find(SubSeq(s, j, Len(s)), Whitespace) - 1 >= pat.min
            THEN j + Min(Find(SubSeq(s, j, Len(s)), Whitespace) - 1, pat.max) - 1
            ELSE 0
        Longest(K, j) == IF K = {} THEN 0 ELSE Secret(j + CHOOSE k \in K : \A m \in K : m <= k)
        AfterLiteral(j) ==
            CASE pat.sep = "none" -> Secret(j)
              [] pat.sep = "one" ->
                    IF j <= Len(s) /\ s[j] \in {"=", ":"} THEN Secret(j + 1) ELSE 0
              [] pat.sep = "many" ->
                    Longest({k \in 1..(Len(s) - j) :
                                /\ \A m \in 0..(k - 1) : s[j + m] \in {"=", ":"} \cup Whitespace
                                /\ s[j + k] \notin Whitespace}, j)
        Spelled(L) == IF L = {} THEN 0 ELSE AfterLiteral(i + Len(CHOOSE l \in L : TRUE))
    IN  Spelled({l \in pat.lits : /\ i + Len(l) - 1 <= Len(s)
                                 /\ Lower(SubSeq(s, i, i + Len(l) - 1)) = l})

\* pattern.sub("[REDACTED]", s) from position i on: the matches are taken
\* from left to right and do not overlap.
RECURSIVE PatternSub(_, _, _)
PatternSub(s, i, pat) ==
    LET Replace(j) == SubSeq(s, i, j - 1)
                          \o <<"[", "R", "E", "D", "A", "C", "T", "E", "D", "]">>
                          \o PatternSub(s, MatchEnd(s, j, pat) + 1, pat)
        Leftmost(J) == IF J = {} THEN SubSeq(s, i, Len(s))
                       ELSE Replace(CHOOSE j \in J : \A m \in J : j <= m)
    IN  Leftmost({j \in i..Len(s) : MatchEnd(s, j, pat) # 0})

\* The patterns k.. of SENSITIVE_PATTERNS substituted in turn.
RECURSIVE SubAll(_, _)
SubAll(s, k) ==
    IF k > Len(SENSITIVE_PATTERNS) THEN s
    ELSE SubAll(PatternSub(s, 1, SENSITIVE_PATTERNS[k]), k + 1)

\* _sanitize_error_message(error, context): str(error) cut to 5000
\* characters, the patterns substituted, the result cut to 497 characters and
\* "..." when longer than 500, after "<context>: ".
sanitize_error_message(error, context) ==
    LET Cut(m) == IF Len(m) > 500 THEN SubSeq(m, 1, 497) \o <<".", ".", ".">> ELSE m
    IN  context \o <<":", " ">> \o Cut(SubAll(SubSeq(error, 1, Min(Len(error), 5000)), 1))

\* The texts of provider errors: a lead, a secret, an end.
ErrorTexts ==
    { lead \o secret \o end :
        lead \in { <<>>,
                   <<"5", "0", "0", " ">>,
                   <<"t", "o", "k", "e", "n", "=">>,
                   <<"T", "o", "k", "e", "n", ":", " ">>,
                   <<"p", "r", "i", "v", "a", "t", "e", "_", "t", "o", "k", "e", "n", ":", " ">>,
                   <<"a", "p", "i", "_", "k", "e", "y", "=">>,
                   Rep("e", 490) \o <<" ">> },
        secret \in { <<"g", "l", "p", "a", "t", "-">> \o Rep("a", 20),
                     <<"g", "l", "p", "r", "t", "-">> \o Rep("a", 20),
                     <<"G", "L", "P", "A", "T", "-">> \o Rep("a", 20),
                     <<"g", "l", "p", "a", "t", "-">> \o Rep("a", 19),
                     <<"g", "l", "p", "r", "t", "-">> \o Rep("-", 10) \o Rep("_", 15),
                     <<"s", "e", "c", "r", "e", "t", "1", "2", "3">> },
        end \in { <<>>, <<" ", "f", "a", "i", "l", "e", "d">>, <<"!">> } }

\* ------------------------------------------------------------------------
\* The mappers of provider records
\* ------------------------------------------------------------------------
\* A field of a provider record holds a value, or None (Null), or is not
\* there at all (Absent): a key the dict lacks, an attribute the object lacks.
Absent == "<absent>"
Null == "<None>"

\* str(x) of an int or of None; an int is written as its numeral.
Str(x) == IF x = Null THEN "None" ELSE x

\* datetime.isoformat()
isoformat(d) ==
    CASE d = "datetime(2023, 1, 1, 12, 0)" -> "2023-01-01T12:00:00"
      [] d = "datetime(2023, 1, 2, 12, 0)" -> "2023-01-02T12:00:00"

\* A complete merge request of GitLab (a dict) and a complete pull request of
\* PyGithub (an object); a nested field is named by its path.
CompleteRecord ==
    [ GitLabMapper |->
        [ iid |-> "123", title |-> "Test MR", description |-> "Some text",
          author |-> "dict", author_username |-> "testuser",
          source_branch |-> "feature", target_branch |-> "main",
          state |-> "opened", created_at |-> "2023-01-01T12:00:00Z",
          updated_at |-> "2023-01-02T12:00:00Z" ],
      GitHubMapper |->
        [ number |-> "123", title |-> "Test PR", body |-> "Some text",
          user |-> "object", user_login |-> "testuser",
          head |-> "object", head_ref |-> "feature",
          base |-> "object", base_ref |-> "main",
          merged |-> "False", state |-> "open",
          created_at |-> "datetime(2023, 1, 1, 12, 0)",
          updated_at |-> "datetime(2023, 1, 2, 12, 0)" ] ]

\* The records handed to to_pull_request_info: complete ones, merged or not,
\* and those with one field set to None or taken away.
PullRequestRecords(mapper) ==
    LET Merged(r) == IF mapper = "GitLabMapper" THEN [r EXCEPT !.state = "merged"]
                     ELSE [r EXCEPT !.merged = "True", !.state = "closed"]
        Whole == {CompleteRecord[mapper], Merged(CompleteRecord[mapper])}
    IN  Whole \cup {[r EXCEPT ![k] = v] : r \in Whole, k \in DOMAIN CompleteRecord[mapper],
                                          v \in {Absent, Null}}

\* Mutant: a field the record lacks is filled in with an empty string.
to_pull_request_info_with_defaults(mapper, r) ==
    [ raised |-> "none",
      value |-> [ id |-> IF mapper = "GitLabMapper" THEN Str(r.iid) ELSE Str(r.number),
                  state |-> r.state ] ]

\* to_pull_request_info of the two mappers.  GitLabMapper subscripts the dict
\* and turns KeyError and TypeError into ValueError; GitHubMapper reads
\* attributes and turns AttributeError into ValueError.
to_pull_request_info(mapper, r) ==
    IF mapper = "GitLabMapper"
    THEN IF \/ \E k \in {"iid", "title", "author", "source_branch", "target_branch",
                         "state", "created_at", "updated_at"} : r[k] = Absent
            \/ r.author = Null                 \* None["username"]: TypeError
            \/ r.author_username = Absent
         THEN [raised |-> "ValueError", value |-> Absent]
         ELSE [ raised |-> "none",
                value |->
                  [ id              |-> Str(r.iid),
                    title           |-> r.title,
                    description     |-> IF r.description \in {Absent, Null} THEN ""
                                        ELSE r.description,
                    author_username |-> r.author_username,
                    source_branch   |-> r.source_branch,
                    target_branch   |-> r.target_branch,
                    state           |-> r.state,
                    is_merged       |-> IF r.state = "merged" THEN "True" ELSE "False",
                    created_at      |-> r.created_at,
                    updated_at      |-> r.updated_at ] ]
    ELSE IF \/ \E k \in {"number", "title", "body", "user", "head", "base", "merged",
                         "created_at", "updated_at"} : r[k] = Absent
            \/ \E k \in {"user", "head", "base"} : r[k] = Null
            \/ \E k \in {"user_login", "head_ref", "base_ref"} : r[k] = Absent
            \/ r.merged # "True" /\ r.state = Absent   \* pr.state is read only then
            \/ r.created_at = Null             \* None.isoformat()
         THEN [raised |-> "ValueError", value |-> Absent]
         ELSE [ raised |-> "none",
                value |->
                  [ id              |-> Str(r.number),
                    title           |-> r.title,
                    description     |-> IF r.body = Null THEN "" ELSE r.body,
                    author_username |-> r.user_login,
                    source_branch   |-> r.head_ref,
                    target_branch   |-> r.base_ref,
                    state           |-> IF r.merged = "True" THEN "merged" ELSE r.state,
                    is_merged       |-> r.merged,
                    created_at      |-> isoformat(r.created_at),
                    updated_at      |-> IF r.updated_at = Null
                                        THEN isoformat(r.created_at)
                                        ELSE isoformat(r.updated_at) ] ]

\* str.split("\n")
RECURSIVE Split(_)
Split(s) ==
    IF Find(s, {"\n"}) > Len(s) THEN <<s>>
    ELSE <<SubSeq(s, 1, Find(s, {"\n"}) - 1)>> \o Split(SubSeq(s, Find(s, {"\n"}) + 1, Len(s)))

\* Mutant: the +++ and --- header lines are counted as well.
count_lines_with_headers(lines, sign) ==
    Cardinality({i \in 1..Len(lines) : StartsWith(lines[i], <<sign>>)})

\* The loop of to_file_change over the lines of the diff: how many start with
\* the sign and not with three of it.
count_lines(lines, sign) ==
    Cardinality({i \in 1..Len(lines) : /\ StartsWith(lines[i], <<sign>>)
                                       /\ ~StartsWith(lines[i], <<sign, sign, sign>>)})

\* GitLabMapper.to_file_change
to_file_change(change) ==
    LET diff_text == IF change.diff \in {<<Absent>>, <<Null>>} THEN <<>> ELSE change.diff
        Set(k) == change[k] \notin {Absent, Null, "False"}
    IN  IF change.new_path = Absent \/ change.old_path = Absent
        THEN [raised |-> "ValueError", value |-> Absent]
        ELSE [ raised |-> "none",
               value |->
                 [ path      |-> change.new_path,
                   old_path  |-> IF change.old_path # change.new_path THEN change.old_path
                                 ELSE Null,
                   status    |-> IF Set("new_file") THEN "added"
                                 ELSE IF Set("deleted_file") THEN "deleted"
                                 ELSE IF Set("renamed_file") THEN "renamed"
                                 ELSE "modified",
                   additions |-> count_lines(Split(diff_text), "+"),
                   deletions |-> count_lines(Split(diff_text), "-"),
                   patch     |-> diff_text ] ]

MaxDiffLines == 3     \* a diff has 1..MaxDiffLines lines

\* The lines diffs are made of.
DiffLines ==
    { <<>>,
      <<"+", "n", "e", "w">>,
      <<"-", "o", "l", "d">>,
      <<"+", "+", "+", " ", "b", "/", "f">>,
      <<"-", "-", "-", " ", "a", "/", "f">>,
      <<"@", "@", " ", "-", "1", ",", "1", " ", "+", "1", ",", "2", " ", "@", "@">>,
      <<" ", "s", "a", "m", "e">>,
      <<"+", "+", "i">> }

\* "\n".join(lines)
RECURSIVE Join(_)
Join(lines) ==
    IF Len(lines) = 1 THEN lines[1] ELSE lines[1] \o <<"\n">> \o Join(Tail(lines))

\* The changes handed to to_file_change: a modified file with each diff of up
\* to MaxDiffLines lines, with the diff of the mapper's test, with a diff of None (<<Null>>) and with no diff key
\* (<<Absent>>), and an added, a deleted, a renamed file and one without
\* new_path.
Changes ==
    LET Modified(d) == [ old_path |-> "file.py", new_path |-> "file.py", new_file |-> "False",
                         deleted_file |-> "False", renamed_file |-> "False", diff |-> d ]
    IN  {Modified(Join(lines)) :
             lines \in UNION {[1..n -> DiffLines] : n \in 1..MaxDiffLines}}
        \cup {Modified(<<"@", "@", " ", "-", "1", ",", "1", " ", "+", "1", ",", "2", " ", "@", "@", "\n", "-", "o", "l", "d", "\n", "+", "n", "e", "w", "\n", "+", "e", "x", "t", "r", "a">>),
              Modified(<<Null>>), Modified(<<Absent>>),
              [Modified(<<Null>>) EXCEPT !.new_file = "True"],
              [Modified(<<Null>>) EXCEPT !.deleted_file = "True"],
              [Modified(<<Null>>) EXCEPT !.renamed_file = "True", !.old_path = "old.py"],
              [Modified(<<Null>>) EXCEPT !.new_path = Absent]}

\* ------------------------------------------------------------------------
\* Calls of the stateless functions
\* ------------------------------------------------------------------------
FunctionStart ==
    /\ \/ \E e \in ErrorTexts :
            fn_call = [fn |-> "_sanitize_error_message", self |-> "GitLabClient", arg |-> e]
       \/ \E r \in PullRequestRecords("GitLabMapper") :
            fn_call = [fn |-> "to_pull_request_info", self |-> "GitLabMapper", arg |-> r]
       \/ \E r \in PullRequestRecords("GitHubMapper") :
            fn_call = [fn |-> "to_pull_request_info", self |-> "GitHubMapper", arg |-> r]
       \/ \E c \in Changes :
            fn_call = [fn |-> "to_file_change", self |-> "GitLabMapper", arg |-> c]
    /\ fn_ret = None

\* GitLabClient._sanitize_error_message(error, "Failed to load repository")
SanitizeErrorMessage ==
    /\ fn_call.fn = "_sanitize_error_message"
    /\ fn_ret = None
    /\ fn_ret' = Some([ raised |-> "none",
                        value |-> sanitize_error_message(fn_call.arg,
                                                         <<"F", "a", "i", "l", "e", "d", " ", "t", "o", " ", "l", "o", "a", "d", " ", "r", "e", "p", "o", "s", "i", "t", "o", "r", "y">>) ])
    /\ UNCHANGED fn_call
    /\ UNCHANGED nonFunctionVars

\* GitLabMapper.to_pull_request_info(mr), GitHubMapper.to_pull_request_info(pr)
ToPullRequestInfo ==
    /\ fn_call.fn = "to_pull_request_info"
    /\ fn_ret = None
    /\ fn_ret' = Some(to_pull_request_info(fn_call.self, fn_call.arg))
    /\ UNCHANGED fn_call
    /\ UNCHANGED nonFunctionVars

\* GitLabMapper.to_file_change(change)
ToFileChange ==
    /\ fn_call.fn = "to_file_change"
    /\ fn_ret = None
    /\ fn_ret' = Some(to_file_change(fn_call.arg))
    /\ UNCHANGED fn_call
    /\ UNCHANGED nonFunctionVars

FunctionNext ==
    \/ SanitizeErrorMessage
    \/ ToPullRequestInfo
    \/ ToFileChange

FunctionInit ==
    FunctionStart /\ RetryIdle /\ ClientIdle /\ PageIdle /\ FactoryIdle /\ MixinIdle
        /\ PaginateIdle /\ GatherIdle

FunctionSpec == FunctionInit /\ [][FunctionNext]_vars

\* ------------------------------------------------------------------------
\* CacheMixin: with_cache and evict_expired
\* ------------------------------------------------------------------------
MaxTtl == 2          \* the largest TTL, of the instance and of the decorator
MaxNow == 3          \* time.time() runs from 0 to MaxNow
MaxInvoked == 3      \* calls of the wrapped function

\* self._cache_logger exists: CacheMixin.__init__ has set it.  It has for a
\* class that derives from CacheMixin alone, and has not for the clients.
HasCacheLogger(cls) ==
    "CacheMixin" \in (IF cls \in DOMAIN InitsRun THEN InitsRun[cls] ELSE {cls})

\* The arguments of the wrapped function: the int 1, the str "1", the int 2.
CallArgs ==
    { [type |-> "int", text |-> "1"],
      [type |-> "str", text |-> "1"],
      [type |-> "int", text |-> "2"] }

\* The cache key of a call of func(arg) with the empty key_prefix:
\* "func:" and the digest of str(arg), so the type of arg is not in it.
make_cache_key(arg) == arg.text

\* Mutant: an entry counts as expired at its expiry time already.
is_expired_at_expiry(entry, t) == t >= entry.expires_at

\* CacheEntry.is_expired when time.time() is t
is_expired(entry, t) == t > entry.expires_at

\* Mutant: only a negative TTL switches the cache off.
caching_off_below_zero(effective_ttl) == effective_ttl < 0

\* "if cache_ttl <= 0: return func(*args, **kwargs)", cache_ttl being the
\* ttl of the decorator or, if that is None, self._cache_ttl
caching_off(effective_ttl) == effective_ttl <= 0

\* What a call of a method of the mixin did.
MixinReturn(method, effective_ttl, key, raised, value, invoked) ==
    [ method |-> method, ttl |-> effective_ttl, key |-> key, raised |-> raised,
      value |-> value, invoked |-> invoked ]

MixinStart ==
    /\ mx_self \in {"CacheMixin", "GitHubClient", "GitLabClient"}
    /\ mx_cache = <<>>
    /\ mx_cache_ttl \in (-1)..MaxTtl
    /\ mx_time = 0
    /\ mx_invoked = 0
    /\ mx_ret = [method |-> "none"]

\* A call of the wrapper that with_cache(ttl) puts around func.  The k-th
\* call of func returns k.
Wrapper(ttl, arg) ==
    LET Invoke(effective_ttl, key, entries) ==
            /\ mx_invoked' = mx_invoked + 1
            /\ mx_cache' = entries
            /\ mx_ret' = MixinReturn("wrapper", effective_ttl, key, "none", mx_invoked + 1, TRUE)
        Raise(effective_ttl, key) ==
            /\ mx_ret' = MixinReturn("wrapper", effective_ttl, key, "AttributeError", 0, FALSE)
            /\ UNCHANGED <<mx_cache, mx_invoked>>
        Hit(effective_ttl, key) ==
            /\ mx_ret' = MixinReturn("wrapper", effective_ttl, key, "none", mx_cache[key].value, FALSE)
            /\ UNCHANGED <<mx_cache, mx_invoked>>
        Store(effective_ttl, key) ==
            Invoke(effective_ttl, key,
                   [k \in DOMAIN mx_cache \cup {key} |->
                       IF k = key
                       THEN [value |-> mx_invoked + 1, expires_at |-> mx_time + effective_ttl]
                       ELSE mx_cache[k]])
        Run(effective_ttl, key) ==
            IF caching_off(effective_ttl) THEN Invoke(effective_ttl, key, mx_cache)
            ELSE IF ~HasCacheLogger(mx_self) THEN Raise(effective_ttl, key)
            ELSE IF key \in DOMAIN mx_cache /\ ~is_expired(mx_cache[key], mx_time)
                 THEN Hit(effective_ttl, key)
            ELSE Store(effective_ttl, key)
    IN  /\ mx_self # "none"
        /\ mx_invoked < MaxInvoked
        /\ Run(IF ttl # None THEN ttl[1] ELSE mx_cache_ttl, make_cache_key(arg))
        /\ UNCHANGED <<mx_self, mx_cache_ttl, mx_time>>
        /\ UNCHANGED nonMixinVars

\* evict_expired(); the value kept of the call is the number of expired keys
\* that it logs.
EvictExpired ==
    /\ mx_self # "none"
    /\ IF HasCacheLogger(mx_self)
       THEN /\ mx_cache' = [k \in {j \in DOMAIN mx_cache : ~is_expired(mx_cache[j], mx_time)} |->
                               mx_cache[k]]
            /\ mx_ret' = MixinReturn("evict_expired", 0, "", "none",
                                     Cardinality({j \in DOMAIN mx_cache :
                                                     is_expired(mx_cache[j], mx_time)}),
                                     FALSE)
       ELSE /\ mx_cache' = mx_cache
            /\ mx_ret' = MixinReturn("evict_expired", 0, "", "AttributeError", 0, FALSE)
    /\ UNCHANGED <<mx_self, mx_cache_ttl, mx_time, mx_invoked>>
    /\ UNCHANGED nonMixinVars

\* time.time() moves on.
MixinTick ==
    /\ mx_self # "none"
    /\ mx_time < MaxNow
    /\ mx_time' = mx_time + 1
    /\ UNCHANGED <<mx_self, mx_cache, mx_cache_ttl, mx_invoked, mx_ret>>
    /\ UNCHANGED nonMixinVars

\* A call of a wrapper, of any decorator with_cache(ttl), with any argument.
WrapperCall ==
    \E ttl \in {None} \cup {Some(t) : t \in (-1)..MaxTtl}, arg \in CallArgs : Wrapper(ttl, arg)

MixinNext ==
    \/ WrapperCall
    \/ EvictExpired
    \/ MixinTick

MixinInit ==
    MixinStart /\ RetryIdle /\ ClientIdle /\ PageIdle /\ FactoryIdle /\ FunctionIdle
        /\ PaginateIdle /\ GatherIdle

MixinSpec == MixinInit /\ [][MixinNext]_vars

\* ------------------------------------------------------------------------
\* BaseGitClient._with_retry: the retry loop of the base client
\* ------------------------------------------------------------------------
MaxBaseRetries == 4   \* max_retries of _with_retry runs from 0 to MaxBaseRetries

\* Mutant: the first wait is already doubled.
base_wait_doubled(attempt) == backoff_factor * Pow2(attempt + 1)

\* wait_time = self.backoff_factor * (2**attempt)
base_wait(attempt) == backoff_factor * Pow2(attempt)

\* _with_retry(func, max_retries) has returned the wrapper and the wrapper is
\* called; attempt_number holds the loop variable attempt, counted from 0.
BaseRetryStart ==
    /\ max_retries \in 0..MaxBaseRetries
    /\ backoff_factor \in 1..MaxBackoff
    /\ max_wait = 60
    /\ jitter = TRUE
    /\ retry_on = DefaultRetryOn
    /\ func \in Funcs
    /\ pc = "for"
    /\ attempt_number = 0
    /\ outcome = NoOutcome
    /\ calls = 0
    /\ sleeps = 0
    /\ wait_time = None
    /\ result = NoOutcome

\* "for attempt in range(max_retries)" has a next attempt: func is called; its
\* value is returned, its exception is caught and kept as last_exception.
BaseTry ==
    /\ pc = "for"
    /\ attempt_number < max_retries
    /\ outcome' = FuncOutcome(func, calls + 1)
    /\ calls' = calls + 1
    /\ IF FuncOutcome(func, calls + 1).failed
       THEN pc' = "except" /\ UNCHANGED result
       ELSE pc' = "returned" /\ result' = FuncOutcome(func, calls + 1)
    /\ UNCHANGED nonRetryVars
    /\ UNCHANGED <<max_retries, backoff_factor, max_wait, jitter, retry_on, func,
                   attempt_number, sleeps, wait_time>>

\* The except clause: sleep unless this was the last attempt, then go on with
\* the loop.
BaseExcept ==
    /\ pc = "except"
    /\ IF attempt_number < max_retries - 1
       THEN /\ wait_time' = Some(base_wait(attempt_number))
            /\ sleeps' = sleeps + 1
       ELSE UNCHANGED <<wait_time, sleeps>>
    /\ attempt_number' = attempt_number + 1
    /\ pc' = "for"
    /\ UNCHANGED nonRetryVars
    /\ UNCHANGED <<max_retries, backoff_factor, max_wait, jitter, retry_on, func,
                   outcome, calls, result>>

\* The loop is over: last_exception is raised, or RuntimeError when there is
\* none.
BaseLoopEnd ==
    /\ pc = "for"
    /\ attempt_number >= max_retries
    /\ result' = IF outcome.failed THEN outcome ELSE Exc("RuntimeError")
    /\ pc' = "raised"
    /\ UNCHANGED nonRetryVars
    /\ UNCHANGED <<max_retries, backoff_factor, max_wait, jitter, retry_on, func,
                   attempt_number, outcome, calls, sleeps, wait_time>>

BaseRetryNext ==
    \/ BaseTry
    \/ BaseExcept
    \/ BaseLoopEnd

BaseRetryInit ==
    BaseRetryStart /\ ClientIdle /\ PageIdle /\ FactoryIdle /\ FunctionIdle /\ MixinIdle
        /\ PaginateIdle /\ GatherIdle

BaseRetrySpec == BaseRetryInit /\ [][BaseRetryNext]_vars

\* ------------------------------------------------------------------------
\* PaginationMixin.paginate, page by page, and collect_paginated on top of it
\* ------------------------------------------------------------------------
MaxPageCount == 3     \* the source scripts 1..MaxPageCount pages
MaxPageItems == 2     \* a page holds 0..MaxPageItems items

\* What fetch_func(page) does for a page of the source: it raises, or returns
\* (items, has_more) with the number of items given.
SourcePages ==
    {[items |-> 0, has_more |-> FALSE, fails |-> TRUE]}
        \cup [items : 0..MaxPageItems, has_more : BOOLEAN, fails : {FALSE}]

\* The sources: fetch_func is scripted for pages 1..n and raises for every
\* later page.
Sources == UNION {[1..n -> SourcePages] : n \in 1..MaxPageCount}

\* fetch_func(page) raises.
FetchFails(page) ==
    IF page > Len(pg_call.pages) THEN TRUE ELSE pg_call.pages[page].fails

\* Mutant: the limit counts as reached only when it is exceeded.
reached_max_items_late(collected) ==
    IF pg_call.max_items = None THEN FALSE ELSE collected > pg_call.max_items[1]

\* "if max_items is not None and len(results) >= max_items"
reached_max_items(collected) ==
    IF pg_call.max_items = None THEN FALSE ELSE collected >= pg_call.max_items[1]

\* "while max_pages is None or page <= max_pages"
within_max_pages(page) ==
    IF pg_call.max_pages = None THEN TRUE ELSE page <= pg_call.max_pages[1]

\* paginate(fetch_func, max_pages=...) consumed to its end, or
\* collect_paginated(fetch_func, max_items=...), which passes no max_pages on.
PaginateStart ==
    /\ \E self \in DOMAIN InitsRun, pages \in Sources :
          \/ \E mp \in {None} \cup {Some(n) : n \in 0..(MaxPageCount + 1)} :
                pg_call = [ self |-> self, helper |-> "paginate", pages |-> pages,
                            max_pages |-> mp, max_items |-> None ]
          \/ \E mi \in {None} \cup {Some(m) : m \in 0..(MaxPageItems + 1)} :
                pg_call = [ self |-> self, helper |-> "collect_paginated", pages |-> pages,
                            max_pages |-> None, max_items |-> mi ]
    /\ pg_page = 1
    /\ pg_idx = 0
    /\ pg_fetched = <<>>
    /\ pg_out = <<>>
    /\ pg_pc = "while"

\* The while condition is false: the generator ends.
PaginateStop ==
    /\ pg_pc = "while"
    /\ ~within_max_pages(pg_page)
    /\ pg_pc' = "done"
    /\ UNCHANGED <<pg_call, pg_page, pg_idx, pg_fetched, pg_out>>
    /\ UNCHANGED nonPaginateVars

\* The body of the while loop up to the for loop: the page is logged through
\* self._pagination_logger, then fetch_func(page) is called; its exception is
\* logged and raised again.
PaginateFetch ==
    /\ pg_pc = "while"
    /\ within_max_pages(pg_page)
    /\ IF ~HasPaginationLogger(pg_call.self)
       THEN /\ pg_pc' = "AttributeError"
            /\ UNCHANGED <<pg_fetched, pg_idx>>
       ELSE /\ pg_fetched' = Append(pg_fetched, pg_page)
            /\ pg_idx' = 0
            /\ pg_pc' = IF FetchFails(pg_page) THEN "FetchError" ELSE "for"
    /\ UNCHANGED <<pg_call, pg_page, pg_out>>
    /\ UNCHANGED nonPaginateVars

\* "for item in items: yield item": the consumer gets the next item of the
\* page; collect_paginated appends it and leaves its loop when max_items is
\* reached, so that the generator is not resumed.
PaginateYield ==
    /\ pg_pc = "for"
    /\ pg_idx < pg_call.pages[pg_page].items
    /\ pg_out' = Append(pg_out, <<pg_page, pg_idx + 1>>)
    /\ pg_idx' = pg_idx + 1
    /\ pg_pc' = IF pg_call.helper = "collect_paginated" /\ reached_max_items(Len(pg_out) + 1)
                THEN "done" ELSE "for"
    /\ UNCHANGED <<pg_call, pg_page, pg_fetched>>
    /\ UNCHANGED nonPaginateVars

\* The items of the page are through: the loop ends when has_more is false,
\* else page is incremented.
PaginatePageEnd ==
    /\ pg_pc = "for"
    /\ pg_idx = pg_call.pages[pg_page].items
    /\ IF pg_call.pages[pg_page].has_more
       THEN pg_page' = pg_page + 1 /\ pg_pc' = "while"
       ELSE pg_page' = pg_page /\ pg_pc' = "done"
    /\ UNCHANGED <<pg_call, pg_idx, pg_fetched, pg_out>>
    /\ UNCHANGED nonPaginateVars

PaginateNext ==
    \/ PaginateStop
    \/ PaginateFetch
    \/ PaginateYield
    \/ PaginatePageEnd

PaginateInit ==
    PaginateStart /\ RetryIdle /\ ClientIdle /\ PageIdle /\ FactoryIdle /\ FunctionIdle
        /\ MixinIdle /\ GatherIdle

PaginateSpec == PaginateInit /\ [][PaginateNext]_vars

\* ------------------------------------------------------------------------
\* SecurityValidator.validate_pr_id and the id checks of the clients
\* ------------------------------------------------------------------------
MaxIdLen == 3         \* the id strings are enumerated up to this length

\* SecurityValidator.validate_pr_id: None when ValueError is raised, else the
\* stripped string, which is what the command line hands to the client.
security_validate_pr_id(pr_id_str) ==
    LET stripped == Strip(pr_id_str)
        n == ParseInt(stripped)
    IN  IF pr_id_str = <<>> THEN None
        ELSE IF n = None THEN None
        ELSE IF n = Beyond \/ ~(1 <= n[1] /\ n[1] <= MAX_INT32) THEN None
        ELSE Some(stripped)

\* The id strings given on the command line: every string of up to MaxIdLen
\* of the characters below, and the ids around the limits of the range checks.
IdChars == {"0", "1", "9", " ", "-", "x"}
IdStrings ==
    UNION {[1..n -> IdChars] : n \in 0..MaxIdLen}
        \cup {<<"9", "9", "9", "9", "9", "9">>,
              <<"1", "0", "0", "0", "0", "0", "0">>,
              <<"2", "1", "4", "7", "4", "8", "3", "6", "4", "7">>,
              <<"2", "1", "4", "7", "4", "8", "3", "6", "4", "8">>}

ValidateStart ==
    /\ \E s \in IdStrings :
          fn_call = [fn |-> "validate_pr_id", self |-> "SecurityValidator", arg |-> s]
    /\ fn_ret = None

\* The argument parser applies SecurityValidator.validate_pr_id to the id.
SecurityValidatePrId ==
    /\ fn_call.fn = "validate_pr_id"
    /\ fn_ret = None
    /\ LET v == security_validate_pr_id(fn_call.arg)
       IN  fn_ret' = Some([by |-> "SecurityValidator", ok |-> v # None,
                           value |-> IF v = None THEN <<>> ELSE v[1]])
    /\ UNCHANGED fn_call
    /\ UNCHANGED nonFunctionVars

\* A client operation is called with the admitted id and checks it itself.
ClientValidatePrId ==
    /\ fn_call.fn = "validate_pr_id"
    /\ fn_ret # None
    /\ IF fn_ret = None THEN FALSE
       ELSE /\ fn_ret[1].by = "SecurityValidator"
            /\ fn_ret[1].ok
            /\ \E cls \in Clients :
                  fn_ret' = Some([by |-> cls,
                                  ok |-> validate_pr_id(cls, fn_ret[1].value) # None,
                                  value |-> fn_ret[1].value])
    /\ UNCHANGED fn_call
    /\ UNCHANGED nonFunctionVars

ValidateNext ==
    \/ SecurityValidatePrId
    \/ ClientValidatePrId

ValidateInit ==
    ValidateStart /\ RetryIdle /\ ClientIdle /\ PageIdle /\ FactoryIdle /\ MixinIdle
        /\ PaginateIdle /\ GatherIdle

ValidateSpec == ValidateInit /\ [][ValidateNext]_vars

\* ------------------------------------------------------------------------
\* GitLabClient.get_existing_comments, page request by page request
\* ------------------------------------------------------------------------
\* self: a GitLabClient, or an instance of a subclass of it that lists
\* RetryMixin among its bases and so has the with_retry the method calls.
GatherSelves ==
    {[cls |-> "GitLabClient", bases |-> ClientBases["GitLabClient"]],
     [cls |-> "GitLabClient with RetryMixin",
      bases |-> ClientBases["GitLabClient"] \cup {"RetryMixin"}]}

has_with_retry(self) == \E b \in self.bases : "with_retry" \in ClassAttrs[b]

\* What the provider may answer to one page request: the number of objects of
\* the page, the length of str(obj.__dict__) of each, the notes each
\* discussion holds; or an error.
BatchSizes == {0, 1, PER_PAGE}
DictSizes == {100, 1000000}
NoteCounts == {0, NotesPerDiscussion}

\* Mutant: the loops go on whatever the page number.
more_pages_whatever(page) == TRUE

\* page <= max_pages of the two while conditions
more_pages(page) == page <= MAX_PAGES

\* estimated_memory + expected_size > self.MAX_MEMORY_PER_REQUEST
memory_limit(mem) == mem + PER_PAGE * ESTIMATED_OBJECT_OVERHEAD > MAX_MEMORY_PER_REQUEST

GatherStep(g) ==
    /\ gather' = g
    /\ UNCHANGED nonGatherVars

GatherStart ==
    \E self \in GatherSelves :
        gather = [self |-> self, pc |-> "get", page |-> 0, notes |-> 0,
                  estimated_memory |-> 0, remaining |-> 0,
                  notes_requests |-> 0, discussions_requests |-> 0]

\* mr = self.with_retry(lambda: self.repo.mergerequests.get(mr_id))(): without
\* with_retry the AttributeError, like an error of the provider, ends the call
\* in the except clauses.
GatherGetMr ==
    /\ gather.pc = "get"
    /\ IF ~has_with_retry(gather.self)
       THEN GatherStep([gather EXCEPT !.pc = "raised"])
       ELSE \E ok \in BOOLEAN :
               GatherStep(IF ok THEN [gather EXCEPT !.pc = "notes", !.page = 1]
                          ELSE [gather EXCEPT !.pc = "raised"])

\* One iteration of the notes loop that reaches its page request.
NotesPage ==
    /\ gather.pc = "notes"
    /\ gather.notes < MAX_COMMENTS_PER_PR
    /\ more_pages(gather.page)
    /\ ~memory_limit(gather.estimated_memory)
    /\ LET asked == [gather EXCEPT !.notes_requests = @ + 1]
       IN  \/ GatherStep([asked EXCEPT !.pc = "raised"])
           \/ \E batch \in BatchSizes, size \in DictSizes :
                 LET batch_memory == batch * (size + ESTIMATED_OBJECT_OVERHEAD)
                 IN  IF batch = 0
                        \/ gather.estimated_memory + batch_memory > MAX_MEMORY_PER_REQUEST
                     THEN GatherStep([asked EXCEPT !.pc = "map"])
                     ELSE GatherStep([asked EXCEPT
                              !.notes = @ + batch,
                              !.estimated_memory = @ + batch_memory,
                              !.page = @ + 1,
                              !.pc = IF batch < PER_PAGE THEN "map" ELSE "notes"])

\* The notes loop ends by its while condition or by the memory limit.
NotesEnd ==
    /\ gather.pc = "notes"
    /\ \/ ~(gather.notes < MAX_COMMENTS_PER_PR /\ more_pages(gather.page))
       \/ memory_limit(gather.estimated_memory)
    /\ GatherStep([gather EXCEPT !.pc = "map"])

\* The notes are mapped to comments, those that cannot be processed are left
\* out (all or none of them here), and the discussions loop is set up.
MapNotes ==
    /\ gather.pc = "map"
    /\ \E comments \in {0, Truncate(gather.notes, MAX_COMMENTS_PER_PR)} :
          GatherStep([gather EXCEPT !.pc = "discussions", !.page = 1,
                                    !.remaining = MAX_COMMENTS_PER_PR - comments])

\* One iteration of the discussions loop that reaches its page request.
DiscussionsPage ==
    /\ gather.pc = "discussions"
    /\ gather.remaining > 0
    /\ more_pages(gather.page)
    /\ ~memory_limit(gather.estimated_memory)
    /\ LET asked == [gather EXCEPT !.discussions_requests = @ + 1]
       IN  \/ GatherStep([asked EXCEPT !.pc = "raised"])
           \/ \E batch \in BatchSizes, size \in DictSizes, notes_count \in NoteCounts :
                 LET batch_memory == batch * (size + ESTIMATED_OBJECT_OVERHEAD)
                     left == IF notes_count * batch >= gather.remaining
                             THEN 0 ELSE gather.remaining - notes_count * batch
                 IN  IF batch = 0
                        \/ gather.estimated_memory + batch_memory > MAX_MEMORY_PER_REQUEST
                     THEN GatherStep([asked EXCEPT !.pc = "done"])
                     ELSE GatherStep([asked EXCEPT
                              !.estimated_memory = @ + batch_memory,
                              !.page = @ + 1,
                              !.remaining = left,
                              !.pc = IF left <= 0 \/ batch < PER_PAGE
                                     THEN "done" ELSE "discussions"])

\* The discussions loop ends by its while condition or by the memory limit;
\* the comments are stored in the cache and returned.
DiscussionsEnd ==
    /\ gather.pc = "discussions"
    /\ \/ ~(gather.remaining > 0 /\ more_pages(gather.page))
       \/ memory_limit(gather.estimated_memory)
    /\ GatherStep([gather EXCEPT !.pc = "done"])

GatherNext ==
    \/ GatherGetMr
    \/ NotesPage
    \/ NotesEnd
    \/ MapNotes
    \/ DiscussionsPage
    \/ DiscussionsEnd

GatherInit ==
    GatherStart /\ RetryIdle /\ ClientIdle /\ PageIdle /\ FactoryIdle /\ FunctionIdle
        /\ MixinIdle /\ PaginateIdle

\* The call runs on: a step is taken whenever one is possible.
GatherSpec == GatherInit /\ [][GatherNext]_vars /\ WF_vars(GatherNext)

\* ------------------------------------------------------------------------
\* Properties of the client operations
\* ------------------------------------------------------------------------
CachedReads == {"get_pr_info", "get_diff_data", "get_commit_messages", "get_pr_context"}
Writes == {"post_comment", "update_comment"}

\* The call names a PR the provider knows, under an id the client accepts,
\* while the provider answers and accepts the token.
HealthyCall(c) ==
    /\ provider_up
    /\ token_valid
    /\ validate_pr_id(client, c.pr_id) # None
    /\ validate_pr_id(client, c.pr_id)[1] \in ExistingPrs

\* A write whose comment id and text pass the client's checks.
AcceptedWrite(c) ==
    /\ c.op \in Writes
    /\ HealthyCall(c)
    /\ c.op = "update_comment" => validate_comment_id(client, c.comment_id).ok
    /\ ~comment_rejected(client, c.text)

\* The next step is a call of the same operation with the same id.
SameCallAgain ==
    /\ call'.seq # call.seq
    /\ call'.op = call.op
    /\ call'.pr_id = call.pr_id

CacheHolds(key, value) ==
    \E i \in 1..Len(cache) : cache[i].key = key /\ cache[i].value = value

\* C1: get_pr_info with a valid id of an existing PR, the provider answering,
\* returns the mapped PullRequestInfo, never an error, and leaves that record
\* in the client's cache.
C1_GetPrInfoReturnsAndCaches ==
    (call.op = "get_pr_info" /\ HealthyCall(call)) =>
        /\ ~ret.failed
        /\ ret.value.of = "get_pr_info"
        /\ ret.value.number = validate_pr_id(client, call.pr_id)[1]
        /\ CacheHolds(CacheKey(client, "get_pr_info", call.pr_id), ret.value)

\* C2: of two sequential calls of get_pr_info, get_diff_data,
\* get_commit_messages or get_pr_context with the same id, within the TTL, the
\* first not served from the cache, both return, the provider is fetched
\* exactly once and the second call returns the value of the first.
C2_RepeatedReadFetchesOnce ==
    [][(/\ call.op \in CachedReads
        /\ SameCallAgain
        /\ HealthyCall(call)
        /\ now < call.at + cache_ttl
        /\ (ret.failed \/ ret.requests > 0))
       => (/\ ~ret.failed
           /\ ~ret'.failed
           /\ ret.requests + ret'.requests = 1
           /\ ret'.value = ret.value)]_vars

\* C3: after post_comment or update_comment on an id the cache holds no comment
\* list for that id, and the next get_existing_comments of the id fetches the
\* comments from the provider.
C3_WriteInvalidatesComments ==
    [][(/\ AcceptedWrite(call)
        /\ call'.seq # call.seq
        /\ call'.op = "get_existing_comments"
        /\ call'.pr_id = call.pr_id)
       => (/\ ~ret.failed
           /\ ~CacheContains(cache, CacheKey(client, "get_existing_comments", call.pr_id), now)
           /\ ~ret'.failed
           /\ ret'.requests > 0)]_vars

\* C4: get_existing_comments populates the cache: a second call with the same
\* id within the TTL of the first, with no write in between, returns the list
\* of the first call without a request to the provider.
C4_CommentsServedFromCache ==
    [][(/\ call.op = "get_existing_comments"
        /\ SameCallAgain
        /\ HealthyCall(call)
        /\ now < call.at + cache_ttl
        /\ (ret.failed \/ ret.requests > 0))
       => (/\ ~ret.failed
           /\ ~ret'.failed
           /\ ret'.requests = 0
           /\ ret'.value = ret.value)]_vars

\* ------------------------------------------------------------------------
\* Properties of with_retry
\* ------------------------------------------------------------------------
\* The exception is in the retryable set of the call.
Retryable(o) == o.failed /\ \E c \in retry_on : IsSubclass(o.kind, c)

\* The wrapped function raises a retryable error on every call.
AlwaysFails == \A n \in 1..(MAX_ALLOWED_RETRIES + 1) : Retryable(FuncOutcome(func, n))

\* The wrapped function raises a retryable error on its first func.fails calls
\* and then succeeds.
FailsThenSucceeds ==
    /\ func.last = Returned
    /\ func.fails > 0 => Retryable(func.err)

\* C5 as stated: an always-failing function is invoked exactly max_retries
\* times (10 above the cap), then its last exception is raised.
C5_InvokedMaxRetriesTimes ==
    (pc = "done" /\ max_retries >= 0 /\ AlwaysFails) =>
        /\ calls = Min(max_retries, MAX_ALLOWED_RETRIES)
        /\ result.failed
        /\ result = FuncOutcome(func, calls)

\* C5 amended: an always-failing function is invoked exactly
\* min(max_retries, 10) times, and once when max_retries is 0; then the last
\* exception it raised is raised, and the call never returns normally.
C5_InvokedUntilExhausted ==
    (max_retries >= 0 /\ AlwaysFails) =>
        /\ result # Returned
        /\ pc = "done" =>
             /\ calls = Max(Min(max_retries, MAX_ALLOWED_RETRIES), 1)
             /\ result.failed
             /\ result = FuncOutcome(func, calls)

C5_Witness ==
    /\ pc = "done"
    /\ AlwaysFails
    /\ max_retries > MAX_ALLOWED_RETRIES
    /\ calls = MAX_ALLOWED_RETRIES
    /\ result = func.err

\* C6 as stated: k retryable failures then success, k < max_retries: k + 1
\* invocations, k waits, the success value returned.
C6_SucceedsAfterKFailures ==
    (pc = "done" /\ FailsThenSucceeds /\ func.fails < max_retries) =>
        /\ calls = func.fails + 1
        /\ sleeps = func.fails
        /\ result = Returned

\* C6 amended: the same for k < min(max_retries, 10).
C6_SucceedsWithinBudget ==
    (pc = "done" /\ FailsThenSucceeds
        /\ func.fails < Min(max_retries, MAX_ALLOWED_RETRIES)) =>
        /\ calls = func.fails + 1
        /\ sleeps = func.fails
        /\ result = Returned

C6_Witness ==
    /\ pc = "done"
    /\ FailsThenSucceeds
    /\ func.fails = 2
    /\ max_retries = 3
    /\ calls = 3
    /\ sleeps = 2
    /\ result = Returned

\* C7: an exception outside the retryable set, on the first or a later
\* attempt, is raised to the caller at once: no further invocation, no wait.
C7_NonRetryablePropagates ==
    [][(pc = "check" /\ outcome.failed /\ ~Retryable(outcome)) =>
        (/\ pc' = "done"
         /\ result' = outcome
         /\ calls' = calls
         /\ sleeps' = sleeps)]_vars

C7_Witness ==
    /\ pc = "done"
    /\ result.failed
    /\ ~Retryable(result)
    /\ calls = 3
    /\ sleeps = 2

\* C8: with the default retry_on, a call that ends with a RateLimitError has
\* used up its attempts: the RateLimitError was retried, not raised at once.
C8_RateLimitRetriedByDefault ==
    (/\ pc = "done"
     /\ max_retries >= 0
     /\ retry_on = DefaultRetryOn
     /\ result.failed
     /\ result.kind = "RateLimitError")
    => calls = Max(Min(max_retries, MAX_ALLOWED_RETRIES), 1)

\* C9: the wait after a retried RateLimitError that carries a reset-time hint
\* r is min(r, max_wait).
C9_RateLimitWaitIsResetTime ==
    (/\ pc = "attempt"
     /\ sleeps > 0
     /\ outcome.kind = "RateLimitError"
     /\ outcome.reset_time # None)
    => wait_time = Some(Min(outcome.reset_time[1], max_wait))

\* C10 as stated: without jitter the wait after the k-th consecutive retryable
\* failure is min(backoff_factor * 2^(k-1), max_wait), and never above max_wait.
C10_ExponentialWait ==
    (pc = "attempt" /\ sleeps > 0 /\ ~jitter) =>
        /\ wait_time = Some(Min(backoff_factor * Pow2(sleeps - 1), max_wait))
        /\ wait_time[1] <= max_wait

\* C10 amended: the same, for failures other than a RateLimitError that
\* carries a non-zero reset-time hint.
C10_ExponentialWaitUnlessRateLimited ==
    (pc = "attempt" /\ sleeps > 0 /\ ~jitter) =>
        /\ wait_time[1] <= max_wait
        /\ ~(outcome.kind = "RateLimitError" /\ outcome.reset_time \notin {None, Some(0)})
             => wait_time = Some(Min(backoff_factor * Pow2(sleeps - 1), max_wait))

C10_Witness ==
    /\ pc = "attempt"
    /\ ~jitter
    /\ outcome.kind = "NetworkError"
    /\ backoff_factor = 1
    /\ sleeps = 3
    /\ max_wait = MaxWaitArg
    /\ wait_time = Some(Min(4, MaxWaitArg))

\* C11: with jitter, every wait before a retry (other than the wait a
\* RateLimitError's reset-time hint gives) lies between half of w and w, where
\* w = min(backoff_factor * 2^k, max_wait) is the exponential wait of that retry
\* (k = 0 for the first retry).
C11_JitteredWaitWithinHalfToFull ==
    (/\ pc = "attempt"
     /\ sleeps > 0
     /\ jitter
     /\ ~(outcome.kind = "RateLimitError" /\ Truthy(outcome.reset_time)))
    => LET w == Min(backoff_factor * Pow2(sleeps - 1), max_wait)
       IN  /\ 2 * wait_time[1] >= w
           /\ wait_time[1] <= w

\* ------------------------------------------------------------------------
\* Properties of the clients' error handling
\* ------------------------------------------------------------------------
Reads == CachedReads \cup {"get_existing_comments"}
ContractOps == Reads \cup Writes

\* C12: a read whose provider call keeps failing with a retryable error ends
\* with an error of that same kind at the caller.
C12_ExhaustedRetryKeepsKind ==
    (/\ call.op \in Reads
     /\ validate_pr_id(client, call.pr_id) # None
     /\ ~provider_up)
    => /\ ret.failed
       /\ ret.kind \in DefaultRetryOn
       /\ ret.kind = ProviderAnswer(validate_pr_id(client, call.pr_id)[1]).exc.kind

\* C13: when the provider answers 401 to the repository load, the caller of
\* the repo property, and the caller of a get_pr_info that triggers the load,
\* gets AuthenticationError after a single request.
C13_UnauthorizedLoadRaisesAuthenticationError ==
    (/\ provider_up
     /\ ~token_valid
     /\ \/ call.op = "repo"
        \/ call.op = "get_pr_info" /\ validate_pr_id(client, call.pr_id) # None)
    => ret = OpRaised("AuthenticationError", 1)

\* The id is not a positive integer within the client's range.
InvalidPrId(cls, s) ==
    LET n == ParseInt(s)
    IN  \/ n = None
        \/ n = Beyond
        \/ n[1] < 1
        \/ n[1] > (IF cls = "GitHubClient" THEN MAX_GITHUB_PR_ID ELSE MAX_INT32)

\* C14: every contract operation called with an id that is not a valid
\* positive integer id raises ResourceNotFoundError without a request to the
\* provider, and leaves the cache as it was.
C14_InvalidIdRaisesNotFound ==
    [][(/\ call'.seq # call.seq
        /\ call'.op \in ContractOps
        /\ InvalidPrId(client, call'.pr_id))
       => (/\ ret' = OpRaised("ResourceNotFoundError", 0)
           /\ cache' = cache
           /\ remote' = remote)]_vars

C14_Witness ==
    /\ client = "GitLabClient"
    /\ call.op = "update_comment"
    /\ call.pr_id = <<"0">>
    /\ ret = OpRaised("ResourceNotFoundError", 0)

C16_YieldsFirstMinItems ==
    (/\ page_pc \in {"done", "raised"}
     /\ max_items # None
     /\ max_items[1] >= 1)
    => /\ page_pc = "done"
       /\ page_out = [i \in 1..Min(page_source, max_items[1]) |-> i]

\* ------------------------------------------------------------------------
\* Properties of the resource ceilings
\* ------------------------------------------------------------------------
Listings == {"get_diff_data", "get_commit_messages", "get_existing_comments"}

\* What the provider holds for the listing of PR number n.
ProviderCount(op, n) ==
    CASE op = "get_diff_data" -> ProviderFiles(n)
      [] op = "get_commit_messages" -> ProviderCommits(n)
      [] OTHER -> ProviderNotes(n) + ProviderDiscussions(n) * NotesPerDiscussion

Ceiling(op) ==
    CASE op = "get_diff_data" -> 1000
      [] op = "get_commit_messages" -> 500
      [] OTHER -> 1000

\* C17: get_diff_data, get_commit_messages and get_existing_comments on an
\* existing PR return normally, with at most 1000 files, 500 messages and 1000
\* comments, and with exactly the first 1000 files / 500 commits when the
\* provider holds more.
C17_ListingsTruncatedNotRaised ==
    (/\ call.op \in Listings
     /\ HealthyCall(call))
    => /\ ~ret.failed
       /\ ret.value.count <= Ceiling(call.op)
       /\ call.op # "get_existing_comments" =>
             ret.value.count =
               Min(ProviderCount(call.op, validate_pr_id(client, call.pr_id)[1]),
                   Ceiling(call.op))

\* C18: GitLabClient.get_existing_comments on an existing MR returns the
\* comments gathered, without raising, and the size estimate of the batches it
\* retained is within the memory ceiling.
C18_CommentsWithinMemoryCeiling ==
    (/\ client = "GitLabClient"
     /\ call.op = "get_existing_comments"
     /\ HealthyCall(call))
    => /\ ~ret.failed
       /\ ret.value.memory <= 50 * 1024 * 1024
       /\ ret.value.count <= 1000

\* ------------------------------------------------------------------------
\* Properties of GitClientFactory.create
\* ------------------------------------------------------------------------
\* One of the four checks of the configuration fails.
SomeCheckFails(cfg) ==
    \/ validate_token(cfg.token, cfg.provider) # "ok"
    \/ validate_repo_identifier(cfg.repo_identifier, cfg.provider) # "ok"
    \/ validate_base_url(cfg.base_url) # "ok"
    \/ validate_numeric_params(cfg.numeric) # "ok"

\* C19: create invokes a client constructor only after the token, the
\* repository identifier, the base URL and the numeric parameters have all
\* passed validation: when any of the checks fails, no constructor has been
\* invoked and create ends by raising.
C19_ConstructsOnlyAfterValidation ==
    (factory_pc # "idle" /\ SomeCheckFails(config)) =>
        /\ constructed = {}
        /\ factory_pc # "construct"
        /\ factory_pc = "done" => created \in {"AuthenticationError", "ValueError"}

\* create has raised on numeric parameters out of bounds, the other three
\* checks passing, without a constructor call.
C19_Witness ==
    /\ factory_pc = "done"
    /\ validate_token(config.token, config.provider) = "ok"
    /\ validate_repo_identifier(config.repo_identifier, config.provider) = "ok"
    /\ validate_base_url(config.base_url) = "ok"
    /\ validate_numeric_params(config.numeric) # "ok"
    /\ created = "ValueError"
    /\ constructed = {}

\* The token formats: ghp_ and 36 alphanumerics, or github_pat_, 22
\* alphanumerics, an underscore and 59 alphanumerics; glpat- or glprt- and at
\* least 20 characters out of the alphanumerics, "_" and "-".
KnownTokenFormat(provider, token) ==
    LET ghp == <<"g", "h", "p", "_">>
        pat == <<"g", "i", "t", "h", "u", "b", "_", "p", "a", "t", "_">>
    IN  IF provider = "github"
        THEN \/ /\ StartsWith(token, ghp)
                /\ Len(token) = 40
                /\ \A i \in 5..40 : token[i] \in Alnum
             \/ /\ StartsWith(token, pat)
                /\ Len(token) = 93
                /\ token[34] = "_"
                /\ \A i \in (12..93) \ {34} : token[i] \in Alnum
        ELSE /\ \/ StartsWith(token, <<"g", "l", "p", "a", "t", "-">>)
                \/ StartsWith(token, <<"g", "l", "p", "r", "t", "-">>)
             /\ Len(token) >= 26
             /\ \A i \in 7..Len(token) : token[i] \in Alnum \cup {"_", "-"}

\* C20: create raises AuthenticationError for every token that is not of its
\* provider's format, a token with the right prefix and a wrong length or
\* wrong characters included.
C20_RejectsTokensOffFormat ==
    (factory_pc = "done" /\ ~KnownTokenFormat(config.provider, config.token)) =>
        created = "AuthenticationError"

\* The base URL is an http or https URL whose host is a loopback address
\* (localhost, 127.x.x.x, ::1), the metadata address 169.254.169.254 or a
\* private address (10.x.x.x, 172.16.x.x to 172.31.x.x, 192.168.x.x).
InternalHost(base_url) ==
    LET Second(h) == ParseInt(SubSeq(h, 5, 4 + Find(SubSeq(h, 5, Len(h)), {"."}) - 1))
        In172(o) == o # None /\ o # Beyond /\ 16 <= o[1] /\ o[1] <= 31
        Internal(h) ==
            \/ h \in {<<"l", "o", "c", "a", "l", "h", "o", "s", "t">>,
                      <<":", ":", "1">>,
                      <<"1", "6", "9", ".", "2", "5", "4", ".", "1", "6", "9", ".", "2", "5", "4">>}
            \/ StartsWith(h, <<"1", "2", "7", ".">>)
            \/ StartsWith(h, <<"1", "0", ".">>)
            \/ StartsWith(h, <<"1", "9", "2", ".", "1", "6", "8", ".">>)
            \/ StartsWith(h, <<"1", "7", "2", ".">>) /\ In172(Second(h))
        Targets(parsed) ==
            /\ parsed.scheme \in {<<"h", "t", "t", "p">>, <<"h", "t", "t", "p", "s">>}
            /\ parsed.hostname # None
            /\ Internal(parsed.hostname[1])
    IN  base_url # None /\ base_url[1] # <<>> /\ Targets(urlparse(base_url[1]))

\* C21: create rejects every http/https base URL whose host is a loopback,
\* link-local metadata or RFC1918 private address, and accepts the public
\* host https://api.example.com.
C21_RejectsInternalHosts ==
    factory_pc = "done" =>
        /\ InternalHost(config.base_url) =>
               created \in {"AuthenticationError", "ValueError"}
        /\ config.base_url = Some(<<"h", "t", "t", "p", "s", ":", "/", "/", "a", "p", "i", ".", "e", "x", "a", "m", "p", "l", "e", ".", "c", "o", "m">>) =>
               validate_base_url(config.base_url) = "ok"

\* The token, the repository identifier and the base URL are valid: the
\* factory's checks and the client's own check of the identifier pass.
ValidButNumeric(cfg) ==
    /\ validate_token(cfg.token, cfg.provider) = "ok"
    /\ validate_repo_identifier(cfg.repo_identifier, cfg.provider) = "ok"
    /\ client_validate_repo_identifier(
           IF cfg.provider = "github" THEN "GitHubClient" ELSE "GitLabClient",
           cfg.repo_identifier) = "ok"
    /\ validate_base_url(cfg.base_url) = "ok"

\* Every tuning parameter lies in its range; backoff_factor in tenths.
TuningInRange(n) ==
    /\ n.cache_ttl \in 0..86400
    /\ n.cache_maxsize \in 0..10000
    /\ n.max_retries \in 0..10
    /\ n.backoff_factor \in 0..50
    /\ n.per_page \in 1..100

\* C22: with a valid token, repository identifier and base URL, create
\* raises a value error exactly when some tuning parameter lies outside its
\* range; values inside the ranges, the boundaries included, are accepted.
C22_ValueErrorIffOutOfRange ==
    (factory_pc = "done" /\ ValidButNumeric(config)) =>
        (created = "ValueError" <=> ~TuningInRange(config.numeric))

\* create has returned a client for parameters on the boundaries of their
\* ranges.
C22_Witness ==
    /\ factory_pc = "done"
    /\ ValidButNumeric(config)
    /\ config.numeric.per_page = 1
    /\ config.numeric.cache_ttl = 0
    /\ created \in Clients

\* C23: a failure while create constructs the client (a missing dependency,
\* any exception of the constructor) surfaces as ClientCreationError; a
\* failure of the validation surfaces as AuthenticationError or value error,
\* never as ClientCreationError.
C23_ConstructionFailuresWrapped ==
    factory_pc = "done" =>
        /\ validate_config(config) # "ok" => created = validate_config(config)
        /\ (validate_config(config) = "ok" /\ created \notin Clients) =>
               created = "ClientCreationError"

\* A slash-delimited namespace path: two or more non-empty segments of
\* letters, digits, "_", "." and "-", none of them "..", as in
\* group/subgroup/project.
NamespacePath(s) ==
    /\ Contains(s, <<"/">>)
    /\ s[1] # "/" /\ s[Len(s)] # "/"
    /\ ~Contains(s, <<"/", "/">>) /\ ~Contains(s, <<".", ".">>)
    /\ \A i \in 1..Len(s) : s[i] \in Alnum \cup {"_", ".", "-", "/"}

\* C24: for GitLab, create accepts every namespace path the GitLab client
\* accepts, nested groups included, and every numeric project id in the
\* positive 32-bit range.
C24_GitLabPathsAndIdsAccepted ==
    ( /\ factory_pc = "done"
      /\ config.provider = "gitlab"
      /\ config.repo_identifier # <<>>
      /\ client_validate_repo_identifier("GitLabClient", config.repo_identifier) = "ok"
      /\ \/ NamespacePath(config.repo_identifier)
         \/ GITLAB_ID_PATTERN(config.repo_identifier) ) =>
        validate_repo_identifier(config.repo_identifier, config.provider) = "ok"

\* ------------------------------------------------------------------------
\* Properties of the stateless functions
\* ------------------------------------------------------------------------
\* The text holds a GitLab token of a format the factory accepts: glpat- or
\* glprt- and twenty or more letters, digits, "_" or "-".
HasGitLabToken(m) ==
    \E i \in 1..(Len(m) - 25) :
        /\ SubSeq(m, i, i + 5) \in {<<"g", "l", "p", "a", "t", "-">>, <<"g", "l", "p", "r", "t", "-">>}
        /\ \A k \in 6..25 : m[i + k] \in Alnum \cup {"_", "-"}

\* C25: no message that _sanitize_error_message hands on holds a GitLab token
\* of a format the factory accepts, and when the error text holds one the
\* message carries [REDACTED], or was cut to 500 characters.
C25_NoGitLabTokenSurfaces ==
    (fn_call.fn = "_sanitize_error_message" /\ fn_ret # None) =>
        /\ ~HasGitLabToken(fn_ret[1].value)
        /\ HasGitLabToken(fn_call.arg) =>
               \/ Contains(fn_ret[1].value, <<"[", "R", "E", "D", "A", "C", "T", "E", "D", "]">>)
               \/ Len(fn_ret[1].value) = Len(<<"F", "a", "i", "l", "e", "d", " ", "t", "o", " ", "l", "o", "a", "d", " ", "r", "e", "p", "o", "s", "i", "t", "o", "r", "y", ":", " ">>) + 500

\* The names under which a mapper reads the required fields: id, title,
\* author username, source branch, target branch, state, creation time.
RequiredFields(mapper) ==
    IF mapper = "GitLabMapper"
    THEN {"iid", "title", "author", "author_username", "source_branch", "target_branch",
          "state", "created_at"}
    ELSE {"number", "title", "user", "user_login", "head", "head_ref", "base", "base_ref",
          "state", "created_at"}

\* C26: to_pull_request_info of a record lacking a required field raises
\* ValueError and returns no PullRequestInfo.
C26_LackingRecordRaises ==
    ( /\ fn_call.fn = "to_pull_request_info"
      /\ fn_ret # None
      /\ \E k \in RequiredFields(fn_call.self) : fn_call.arg[k] = Absent ) =>
        fn_ret[1].raised = "ValueError"

\* The lines of the text that start with the sign but not with three of it,
\* counted on the text itself: a line starts at the first character and after
\* each newline.
SignedLines(text, sign) ==
    Cardinality({i \in 1..Len(text) :
                    /\ i = 1 \/ text[i - 1] = "\n"
                    /\ text[i] = sign
                    /\ ~(i + 2 <= Len(text) /\ text[i + 1] = sign /\ text[i + 2] = sign)})

\* C27: the additions of the mapped FileChange are the lines of the diff
\* starting with + and not with +++, its deletions those starting with - and
\* not with ---; the diff of the example gives 2 and 1.
C27_CountsSignedLines ==
    (fn_call.fn = "to_file_change" /\ fn_ret # None /\ fn_ret[1].raised = "none") =>
        /\ fn_ret[1].value.additions = SignedLines(fn_ret[1].value.patch, "+")
        /\ fn_ret[1].value.deletions = SignedLines(fn_ret[1].value.patch, "-")
        /\ fn_call.arg.diff \notin {<<Null>>, <<Absent>>} =>
               fn_ret[1].value.patch = fn_call.arg.diff
        /\ fn_call.arg.diff = <<"@", "@", " ", "-", "1", ",", "1", " ", "+", "1", ",", "2", " ", "@", "@", "\n", "-", "o", "l", "d", "\n", "+", "n", "e", "w", "\n", "+", "e", "x", "t", "r", "a">> =>
               fn_ret[1].value.additions = 2 /\ fn_ret[1].value.deletions = 1

\* A diff with both header lines and one added line has been mapped.
C27_Witness ==
    /\ fn_call.fn = "to_file_change"
    /\ fn_ret # None
    /\ fn_call.arg.diff = <<"-", "-", "-", " ", "a", "/", "f", "\n", "+", "+", "+", " ", "b", "/", "f", "\n", "+", "n", "e", "w">>
    /\ fn_ret[1].value.additions = 1
    /\ fn_ret[1].value.deletions = 0

\* ------------------------------------------------------------------------
\* Properties of CacheMixin
\* ------------------------------------------------------------------------
\* C28: a call of the wrapper with a positive TTL returns the stored value,
\* without invoking the function, when the key has an entry whose expiry time
\* has not passed; otherwise it invokes the function, returns the fresh
\* value and stores it with the expiry time now + TTL.
C28_ServesStoredUntilExpiry ==
    [][ (WrapperCall /\ mx_ret'.ttl > 0) =>
            /\ mx_ret'.raised = "none"
            /\ IF /\ mx_ret'.key \in DOMAIN mx_cache
                  /\ mx_time <= mx_cache[mx_ret'.key].expires_at
               THEN /\ mx_ret'.value = mx_cache[mx_ret'.key].value
                    /\ mx_invoked' = mx_invoked
                    /\ mx_cache' = mx_cache
               ELSE /\ mx_invoked' = mx_invoked + 1
                    /\ mx_ret'.value = mx_invoked'
                    /\ DOMAIN mx_cache' = DOMAIN mx_cache \cup {mx_ret'.key}
                    /\ mx_cache'[mx_ret'.key] =
                           [value |-> mx_invoked', expires_at |-> mx_time + mx_ret'.ttl] ]_vars

\* C29: a call of the wrapper with an effective TTL of zero or less invokes
\* the function, returns what it returned and leaves the cache as it was.
C29_NoCachingWithoutTtl ==
    [][ (WrapperCall /\ mx_ret'.ttl <= 0) =>
            /\ mx_ret'.raised = "none"
            /\ mx_invoked' = mx_invoked + 1
            /\ mx_ret'.value = mx_invoked'
            /\ mx_cache' = mx_cache ]_vars

\* A call with TTL zero or less has invoked the function although the cache
\* held a live entry for its key.
C29_Witness ==
    /\ mx_ret.method = "wrapper"
    /\ mx_ret.ttl <= 0
    /\ mx_ret.invoked
    /\ mx_ret.key \in DOMAIN mx_cache
    /\ mx_time <= mx_cache[mx_ret.key].expires_at
    /\ mx_ret.value # mx_cache[mx_ret.key].value

\* C30: evict_expired removes the entries whose expiry time has passed, and
\* only those; the entries left are the ones they were.
C30_EvictsExactlyExpired ==
    [][ EvictExpired =>
            /\ DOMAIN mx_cache' = {k \in DOMAIN mx_cache : mx_time <= mx_cache[k].expires_at}
            /\ \A k \in DOMAIN mx_cache' : mx_cache'[k] = mx_cache[k] ]_vars

\* evict_expired has removed an entry and left one that expires just now.
C30_Witness ==
    /\ mx_ret.method = "evict_expired"
    /\ mx_ret.raised = "none"
    /\ mx_ret.value >= 1
    /\ \E k \in DOMAIN mx_cache : mx_cache[k].expires_at = mx_time

\* ------------------------------------------------------------------------
\* Properties of BaseGitClient._with_retry
\* ------------------------------------------------------------------------
\* The function fails on each of its first n calls.
FailsFirst(n) == \A i \in 1..n : FuncOutcome(func, i).failed

\* C32: with max_retries = n >= 1, a function failing on every call is invoked
\* n times, with n-1 sleeps, and its last exception is raised; one that fails
\* k < n times and then succeeds is invoked k+1 times, with k sleeps, and its
\* value is returned; the sleep after the failed attempt a, counted from 0,
\* is backoff_factor * 2^a.
C32_AttemptsAndSleeps ==
    /\ [](( pc \in {"returned", "raised"} /\ max_retries >= 1 ) =>
            IF FailsFirst(max_retries)
            THEN /\ calls = max_retries
                 /\ sleeps = max_retries - 1
                 /\ pc = "raised"
                 /\ result = FuncOutcome(func, max_retries)
            ELSE \E k \in 0..(max_retries - 1) :
                    /\ FailsFirst(k) /\ ~FuncOutcome(func, k + 1).failed
                    /\ calls = k + 1
                    /\ sleeps = k
                    /\ pc = "returned"
                    /\ result = FuncOutcome(func, k + 1))
    /\ [][ sleeps' = sleeps + 1 =>
               /\ outcome.failed
               /\ wait_time' = Some(backoff_factor * Pow2(calls - 1)) ]_vars

\* A function that failed twice and then succeeded has been called through a
\* wrapper with more than three attempts and a backoff_factor above 1: the
\* second sleep was twice the backoff_factor.
C32_Witness ==
    /\ pc = "returned"
    /\ max_retries > 3
    /\ backoff_factor > 1
    /\ calls = 3
    /\ sleeps = 2
    /\ wait_time = Some(2 * backoff_factor)

\* C36: for every max_retries from 0 to 10 the wrapper invokes the function at
\* least once, and returns its value or raises an exception it raised.
C36_InvokedAtLeastOnce ==
    ( pc \in {"returned", "raised"} /\ max_retries \in 0..MAX_ALLOWED_RETRIES ) =>
        /\ calls >= 1
        /\ result = FuncOutcome(func, calls)

\* ------------------------------------------------------------------------
\* Properties of the pagination helpers
\* ------------------------------------------------------------------------
\* C37: a helper called with max_items = M >= 0 produces at most M items, and
\* none when M is 0.
C37_AtMostMaxItems ==
    (page_pc \in {"done", "raised"} /\ max_items # None) =>
        Len(page_out) <= max_items[1]

\* The items of the pages 1..n of the source.
ItemsOfPages(n) ==
    {<<p, k>> : p \in 1..n, k \in 1..MaxPageItems} \cap
        {it \in (1..n) \X (1..MaxPageItems) : it[2] <= pg_call.pages[it[1]].items}

\* The items yielded are those of the pages 1..n, in page order and within a
\* page in the order of the page.
YieldedPages(n) ==
    /\ {pg_out[i] : i \in 1..Len(pg_out)} = ItemsOfPages(n)
    /\ \A i, j \in 1..Len(pg_out) :
          i < j => \/ pg_out[i][1] < pg_out[j][1]
                   \/ pg_out[i][1] = pg_out[j][1] /\ pg_out[i][2] < pg_out[j][2]

\* C31: paginate calls fetch_func with the pages 1, 2, 3, ... in order and at
\* most max_pages times; it ends after the first page without has_more or
\* after max_pages pages, having yielded the items of all pages fetched, in
\* order; an exception of fetch_func reaches the consumer after the items of
\* the pages before; and paginate ends in no other way.
C31_PagesInOrderUntilLast ==
    pg_call.helper = "paginate" =>
        /\ pg_fetched = [i \in 1..Len(pg_fetched) |-> i]
        /\ pg_call.max_pages # None => Len(pg_fetched) <= pg_call.max_pages[1]
        /\ pg_pc \in {"while", "for", "done", "FetchError"}
        /\ pg_pc = "FetchError" =>
              /\ FetchFails(Len(pg_fetched))
              /\ \A p \in 1..(Len(pg_fetched) - 1) : pg_call.pages[p].has_more
              /\ YieldedPages(Len(pg_fetched) - 1)
        /\ pg_pc = "done" =>
              /\ \A p \in 1..Len(pg_fetched) : ~FetchFails(p)
              /\ \A p \in 1..(Len(pg_fetched) - 1) : pg_call.pages[p].has_more
              /\ YieldedPages(Len(pg_fetched))
              /\ \/ pg_call.max_pages = Some(Len(pg_fetched))
                 \/ Len(pg_fetched) >= 1 /\ ~pg_call.pages[Len(pg_fetched)].has_more

\* C38: collect_paginated with max_items = M >= 1 collects at most M items
\* and, once it holds M, has called fetch_func for no page after the one that
\* supplied the M-th item.
C38_NoFetchBeyondMaxItems ==
    ( /\ pg_call.helper = "collect_paginated"
      /\ pg_call.max_items # None
      /\ pg_call.max_items # Some(0) ) =>
        /\ Len(pg_out) <= pg_call.max_items[1]
        /\ Len(pg_out) = pg_call.max_items[1] =>
              /\ pg_pc = "done"
              /\ \A i \in 1..Len(pg_fetched) : pg_fetched[i] <= pg_out[Len(pg_out)][1]

\* collect_paginated has ended with M items, the M-th being the last item of
\* a page that said has_more, and the source has a page after it.
C38_Witness ==
    /\ pg_call.helper = "collect_paginated"
    /\ pg_call.max_items = Some(Len(pg_out))
    /\ pg_pc = "done"
    /\ Len(pg_out) >= 1
    /\ pg_idx = pg_call.pages[pg_page].items
    /\ pg_call.pages[pg_page].has_more
    /\ pg_page < Len(pg_call.pages)
    /\ ~pg_call.pages[pg_page + 1].fails
    /\ pg_fetched[Len(pg_fetched)] = pg_page

\* ------------------------------------------------------------------------
\* Properties of the comment writes
\* ------------------------------------------------------------------------
\* The comment is empty, whitespace-only or longer than 65536 characters.
Unacceptable(text) == text.len = 0 \/ text.stripped = 0 \/ text.len > 65536

\* C33: GitLabClient.post_comment and update_comment called with a comment
\* that is empty, whitespace-only or longer than 65536 characters raise
\* without a request to the provider, leaving the provider's notes and the
\* cache as they were; the error is a ValueError (for an id the client does
\* not accept, the ResourceNotFoundError of the id check, which comes first).
C33_UnacceptableCommentRejected ==
    [][(/\ call'.seq # call.seq
        /\ call'.op \in Writes
        /\ client = "GitLabClient"
        /\ Unacceptable(call'.text))
       => (/\ ret' = OpRaised(IF InvalidPrId(client, call'.pr_id)
                              THEN "ResourceNotFoundError" ELSE "ValueError", 0)
           /\ cache' = cache
           /\ remote' = remote)]_vars

C33_Witness ==
    /\ client = "GitLabClient"
    /\ call.op = "post_comment"
    /\ call.pr_id = <<"1">>
    /\ call.text.len > 65536
    /\ ret = OpRaised("ValueError", 0)
    /\ CacheContains(cache, CacheKey(client, "get_existing_comments", <<"1">>), now)

\* The key under which the comment list of the id is cached.
CommentsKey(pr_id) == CacheKey(client, "get_existing_comments", pr_id)

\* C34: a post_comment or update_comment that raises leaves the cache exactly
\* as it was, and on GitLabClient a comment list cached for the id is returned
\* by the get_existing_comments that follows, without a provider request.
C34_FailedWriteKeepsCache ==
    /\ [][(/\ call'.seq # call.seq
           /\ call'.op \in Writes
           /\ ret'.failed)
          => cache' = cache]_vars
    /\ [][(/\ client = "GitLabClient"
           /\ call.op \in Writes
           /\ ret.failed
           /\ call'.seq # call.seq
           /\ call'.op = "get_existing_comments"
           /\ call'.pr_id = call.pr_id
           /\ CacheContains(cache, CommentsKey(call.pr_id), now))
          => (/\ ret' = OpReturned(CacheGet(cache, CommentsKey(call.pr_id)), 0)
              /\ ret'.value.of = "get_existing_comments"
              /\ cache' = cache)]_vars

C34_Witness ==
    /\ client = "GitLabClient"
    /\ call.op = "update_comment"
    /\ call.pr_id = <<"2">>
    /\ ret.failed
    /\ ret.kind = "APIError"
    /\ CacheContains(cache, CommentsKey(<<"2">>), now)

C39_AdmittedIdAccepted ==
    (/\ fn_call.fn = "validate_pr_id"
     /\ fn_ret # None)
    => (fn_ret[1].by \in Clients => fn_ret[1].ok)

\* ------------------------------------------------------------------------
\* Properties of the comment listing of GitLabClient
\* ------------------------------------------------------------------------
\* C40: a call of GitLabClient.get_existing_comments makes at most 50 page
\* requests to the notes listing and at most 50 to the discussions listing,
\* and comes to an end, by returning or by raising, whatever the provider
\* answers.
C40_PageRequestsBoundedAndEnds ==
    /\ [](gather.pc # "idle" =>
            /\ gather.notes_requests <= 50
            /\ gather.discussions_requests <= 50)
    /\ <>(gather.pc \in {"done", "raised"})

\* The provider has answered every page request with a full page.
C40_Witness ==
    /\ gather.pc = "done"
    /\ gather.notes_requests = 10
    /\ gather.discussions_requests = 50

====
